---- MODULE Spec2Model ----
(***************************************************************************)
(* Messaging compliance and webhook routing engine of frappe_whatsapp:     *)
(* consent verification, the 24-hour conversation window, marketing        *)
(* template compliance, the outgoing send path of WhatsApp Message and     *)
(* WhatsApp Notification, and the inbound webhook task.                    *)
(*                                                                         *)
(* Strings the code inspects (phone numbers, footers, unsubscribe texts)   *)
(* are sequences of one-character strings, so that stripping a "+",        *)
(* trimming blanks and substring tests are computed, not assumed.          *)
(* Python's None and "" are both the empty value of their type.            *)
(***************************************************************************)
EXTENDS Naturals, Integers, Sequences, FiniteSets, TLC

VARIABLES
    settings,      \* the WhatsApp Compliance Settings singleton
    templates,     \* WhatsApp Templates, by name
    profiles,      \* WhatsApp Profiles rows, in insertion order
    messages,      \* WhatsApp Message rows, in insertion order
    routes,        \* WhatsApp Conversation Route: <<contact, account>> -> app
    now,           \* the clock, in ticks (TicksPerHour per hour)
    ticks,         \* number of clock advances so far
    task,          \* per background worker: position in _process_incoming_message
    payload,       \* the inbound message the provider (re)delivers
    deliveries,    \* number of deliveries of payload handed to workers
    completed,     \* number of deliveries whose processing has returned
    jobs,          \* background jobs enqueued (forward, media download, realtime)
    consentCall,   \* arguments and result of the last verify_consent_for_send
    windowCall,    \* arguments and result of the last is_within_conversation_window
    lastSend,      \* what the last outgoing send did
    consent_log,   \* WhatsApp Consent Log rows, in insertion order
    committed,     \* the Profiles and Consent Log rows other connections read
    consentTxn,    \* the running process_opt_out / process_opt_in, if any
    calls,         \* the consent operations that returned, in order
    notification_log, \* WhatsApp Notification Log rows written by post()
    lastHttp,      \* the last webhook request and its response
    statusCall,    \* the last status event handed to update_status
    accounts,      \* WhatsApp Account rows, in insertion order
    routeCalls,    \* the set_last_sender_app calls made, in order
    routeRead,     \* arguments and result of the last get_last_sender_app
    routeTask,     \* per worker: position in set_last_sender_app
    client_apps,   \* WhatsApp Client App rows, by name
    forwardCall,   \* the last run of the forward job and what it did
    downloadCall,  \* the last run of download_and_attach_media
    template_rows, \* the id and status columns of WhatsApp Templates
    payloadCall,   \* the last run of process_webhook_payload
    transmitCall,  \* the last insert that called the provider, as its caller saw it
    confirmCall,   \* the last confirmation send and how it ended
    default_flags, \* per WhatsApp Account: is_default_incoming, is_default_outgoing
    saveStack,     \* the WhatsApp Account on_update calls in progress, innermost last
    bulk,          \* the Bulk WhatsApp Message row and its jobs
    profileTask,   \* per worker: position in a Profile get-or-create
    keyword_rows,  \* the WhatsApp Opt Out Keyword rows, in the order get_all returns them
    keywordCall    \* arguments and result of the last check_opt_out_keyword

consentVars == <<consent_log, committed, consentTxn, calls>>

adminVars == <<confirmCall, default_flags, saveStack, bulk, profileTask, keyword_rows,
               keywordCall>>

extraVars == <<routeTask, client_apps, forwardCall, downloadCall, template_rows,
               payloadCall, transmitCall,
                       adminVars>>

httpVars == <<notification_log, lastHttp, statusCall, accounts, routeCalls, routeRead, extraVars>>

vars == <<settings, templates, profiles, messages, routes, now, ticks, task, payload, deliveries, completed, jobs, consentCall, windowCall, lastSend, consentVars, httpVars>>

----------------------------------------------------------------------------
(* Bounds of the model *)

MaxDeliveries == 3     \* deliveries of the same payload
MaxTicks == 3          \* clock advances in the window specification
MaxWinMsgs == 2        \* messages stored in the window specification
MaxOutgoing == 1       \* outgoing documents inserted in the send specification
MaxOps == 3            \* consent operations started in the consent specification

MaxPosts == 3          \* webhook POST requests in the endpoint specification
MaxRouteCalls == 3     \* set_last_sender_app calls in the routing specification
MaxRoutedMsgs == 3     \* messages stored in the routed-inbound specification
MaxForwards == 2       \* runs of the forward job in the forwarding specification
MaxDownloads == 2      \* runs of the media download job in the media specification
MaxTransmits == 3      \* inserts that call the provider in the transmission specification
MaxConfirms == 2       \* confirmation sends in the confirmation specification
TicksPerHour == 2      \* clock resolution: half hours

(* Program constants *)

DefaultWindowHours == 24

----------------------------------------------------------------------------
(* Values *)

NoApp == ""          \* no client application (None)
NoCategory == ""     \* no consent category (None)
NoId == <<>>         \* no provider message id (None)
NoTemplate == ""     \* no template (None)
NoAccount == ""      \* whatsapp_account argument None

Workers == {"w1", "w2"}
Accounts == {"A", "B"}
Apps == {"app1"}
Categories == {"promo", "news"}

N1 == <<"1">>
N2 == <<"2">>
PlusN1 == <<"+", "1">>
Empty == <<>>

NoCall == [called |-> FALSE]

----------------------------------------------------------------------------
(* String helpers *)

\* number.startswith("+") -> number[1:]
format_number(number) ==
    IF Len(number) > 0 /\ Head(number) = "+" THEN Tail(number) ELSE number

RECURSIVE LStrip(_)
LStrip(s) == IF Len(s) > 0 /\ Head(s) = " " THEN LStrip(Tail(s)) ELSE s

RECURSIVE RStrip(_)
RStrip(s) ==
    IF Len(s) > 0 /\ s[Len(s)] = " " THEN RStrip(SubSeq(s, 1, Len(s) - 1)) ELSE s

\* str.strip()
Strip(s) == RStrip(LStrip(s))

\* Python's `sub in s` for strings
Contains(sub, s) ==
    \E i \in 1..(Len(s) + 1) :
        /\ i + Len(sub) - 1 <= Len(s)
        /\ SubSeq(s, i, i + Len(sub) - 1) = sub

\* str.lower(), letter by letter
UpperCase == <<"A", "E", "H", "L", "O", "P", "R", "S", "T", "Y">>
LowerCase == <<"a", "e", "h", "l", "o", "p", "r", "s", "t", "y">>

LowerChar(c) ==
    IF \E i \in 1..Len(UpperCase) : UpperCase[i] = c
    THEN LowerCase[CHOOSE i \in 1..Len(UpperCase) : UpperCase[i] = c]
    ELSE c

Lower(s) == [i \in 1..Len(s) |-> LowerChar(s[i])]

\* str.startswith
StartsWith(s, prefix) ==
    Len(prefix) <= Len(s) /\ SubSeq(s, 1, Len(prefix)) = prefix

\* raw.split(","): the pieces between commas
RECURSIVE Split(_)
Split(raw) ==
    IF \E i \in 1..Len(raw) : raw[i] = ","
    THEN LET i == CHOOSE k \in 1..Len(raw) :
                      raw[k] = "," /\ \A j \in 1..(k - 1) : raw[j] # ","
         IN <<SubSeq(raw, 1, i - 1)>> \o Split(SubSeq(raw, i + 1, Len(raw)))
    ELSE <<raw>>

\* message texts
Stop == <<"S", "T", "O", "P">>
StopLower == <<"s", "t", "o", "p">>
Yes == <<"Y", "E", "S">>
Hello == <<"h", "e", "l", "l", "o">>

----------------------------------------------------------------------------
(* Store helpers *)

\* frappe.db.get_all("WhatsApp Profiles", filters={"number": number}, limit=1)
ProfileRows(number) == {i \in 1..Len(profiles) : profiles[i].number = number}

FirstProfile(number) ==
    CHOOSE i \in ProfileRows(number) : \A j \in ProfileRows(number) : i <= j

----------------------------------------------------------------------------
(* Compliance Rule Engine: consent verification (utils/consent.py) *)

ConsentResult(allowed, status) == [allowed |-> allowed, status |-> status]

\* frappe.db.get_value("WhatsApp Profile Consent", {parent, consent_category})
CategoryRow(profile, consent_category) == profile.consents[consent_category]

\* Mutant: the transactional bypass is tried before the do_not_contact block.
verify_consent_bypass_first(phone_number, consent_category, is_transactional) ==
    IF settings.consent_check_mode = "Disabled" \/ ~settings.enforce_consent_check
    THEN ConsentResult(TRUE, "Bypassed")
    ELSE LET number == format_number(phone_number) IN
    IF number = <<>>
    THEN ConsentResult(TRUE, "Unknown")
    ELSE IF is_transactional /\ settings.allow_transactional_without_consent
    THEN ConsentResult(TRUE, "Bypassed")
    ELSE IF ProfileRows(number) = {}
    THEN ConsentResult(settings.consent_check_mode = "Warning Only", "Unknown")
    ELSE LET profile == profiles[FirstProfile(number)] IN
    IF profile.do_not_contact \/ profile.is_opted_out
    THEN ConsentResult(FALSE, "Opted Out")
    ELSE IF /\ consent_category # NoCategory
            /\ CategoryRow(profile, consent_category) = "no"
    THEN ConsentResult(FALSE, "Opted Out")
    ELSE IF profile.is_opted_in
    THEN ConsentResult(TRUE, "Opted In")
    ELSE ConsentResult(settings.consent_check_mode = "Warning Only", "Unknown")

\* Mutant: a number without a Profile is let through in every mode.
verify_consent_no_profile_open(phone_number, consent_category, is_transactional) ==
    IF settings.consent_check_mode = "Disabled" \/ ~settings.enforce_consent_check
    THEN ConsentResult(TRUE, "Bypassed")
    ELSE LET number == format_number(phone_number) IN
    IF number = <<>>
    THEN ConsentResult(TRUE, "Unknown")
    ELSE IF ProfileRows(number) = {}
    THEN IF is_transactional /\ settings.allow_transactional_without_consent
         THEN ConsentResult(TRUE, "Bypassed")
         ELSE ConsentResult(TRUE, "Unknown")
    ELSE LET profile == profiles[FirstProfile(number)] IN
    IF profile.do_not_contact \/ profile.is_opted_out
    THEN ConsentResult(FALSE, "Opted Out")
    ELSE IF /\ consent_category # NoCategory
            /\ CategoryRow(profile, consent_category) = "no"
    THEN ConsentResult(FALSE, "Opted Out")
    ELSE IF profile.is_opted_in
    THEN ConsentResult(TRUE, "Opted In")
    ELSE IF is_transactional /\ settings.allow_transactional_without_consent
    THEN ConsentResult(TRUE, "Bypassed")
    ELSE ConsentResult(settings.consent_check_mode = "Warning Only", "Unknown")

\* Mutant: the opted-in rule is tried before the category rule.
verify_consent_optin_first(phone_number, consent_category, is_transactional) ==
    IF settings.consent_check_mode = "Disabled" \/ ~settings.enforce_consent_check
    THEN ConsentResult(TRUE, "Bypassed")
    ELSE LET number == format_number(phone_number) IN
    IF number = <<>>
    THEN ConsentResult(TRUE, "Unknown")
    ELSE IF ProfileRows(number) = {}
    THEN IF is_transactional /\ settings.allow_transactional_without_consent
         THEN ConsentResult(TRUE, "Bypassed")
         ELSE ConsentResult(settings.consent_check_mode = "Warning Only", "Unknown")
    ELSE LET profile == profiles[FirstProfile(number)] IN
    IF profile.do_not_contact \/ profile.is_opted_out
    THEN ConsentResult(FALSE, "Opted Out")
    ELSE IF profile.is_opted_in
    THEN ConsentResult(TRUE, "Opted In")
    ELSE IF /\ consent_category # NoCategory
            /\ CategoryRow(profile, consent_category) = "no"
    THEN ConsentResult(FALSE, "Opted Out")
    ELSE IF is_transactional /\ settings.allow_transactional_without_consent
    THEN ConsentResult(TRUE, "Bypassed")
    ELSE ConsentResult(settings.consent_check_mode = "Warning Only", "Unknown")

verify_consent_for_send(phone_number, consent_category, is_transactional) ==
    IF settings.consent_check_mode = "Disabled"
    THEN ConsentResult(TRUE, "Bypassed")
    ELSE IF ~settings.enforce_consent_check
    THEN ConsentResult(TRUE, "Bypassed")
    ELSE LET number == format_number(phone_number) IN
    IF number = <<>>
    THEN ConsentResult(TRUE, "Unknown")
    ELSE IF ProfileRows(number) = {}
    THEN IF is_transactional /\ settings.allow_transactional_without_consent
         THEN ConsentResult(TRUE, "Bypassed")
         ELSE IF settings.consent_check_mode = "Warning Only"
         THEN ConsentResult(TRUE, "Unknown")
         ELSE ConsentResult(FALSE, "Unknown")
    ELSE LET profile == profiles[FirstProfile(number)] IN
    IF profile.do_not_contact
    THEN ConsentResult(FALSE, "Opted Out")
    ELSE IF profile.is_opted_out
    THEN ConsentResult(FALSE, "Opted Out")
    ELSE IF /\ consent_category # NoCategory
            /\ CategoryRow(profile, consent_category) = "no"
    THEN ConsentResult(FALSE, "Opted Out")
    ELSE IF profile.is_opted_in
    THEN ConsentResult(TRUE, "Opted In")
    ELSE IF is_transactional /\ settings.allow_transactional_without_consent
    THEN ConsentResult(TRUE, "Bypassed")
    ELSE IF settings.consent_check_mode = "Warning Only"
    THEN ConsentResult(TRUE, "Unknown")
    ELSE ConsentResult(FALSE, "Unknown")

----------------------------------------------------------------------------
(* Consent keywords (utils/consent.py) *)

MkKeyword(keyword, case_sensitive, match_type, action, target_category, account) ==
    [keyword |-> keyword,
     case_sensitive |-> case_sensitive,
     match_type |-> match_type,
     action |-> action,
     target_category |-> target_category,
     is_enabled |-> TRUE,
     whatsapp_account |-> account]

\* the WhatsApp Opt Out Keyword rows: "STOP", Exact, case-insensitive
\* the keyword table of a site that configured the one keyword STOP
DefaultKeywords == <<MkKeyword(Stop, FALSE, "Exact", "Full Opt-Out", NoCategory, NoAccount)>>

\* frappe.get_all("WhatsApp Opt Out Keyword"): the stored rows
OptOutKeywords == keyword_rows

\* check_opt_out_keyword found nothing (None)
NoKeyword == MkKeyword(<<>>, FALSE, "", "", NoCategory, NoAccount)

\* Mutant: the account filter is dropped.
get_opt_out_keywords_unscoped(whatsapp_account) ==
    SelectSeq(OptOutKeywords, LAMBDA kw : kw.is_enabled)

\* get_opt_out_keywords: the enabled rows, of every account or of this one
get_opt_out_keywords(whatsapp_account) ==
    SelectSeq(OptOutKeywords,
              LAMBDA kw : /\ kw.is_enabled
                          /\ (whatsapp_account # NoAccount =>
                                kw.whatsapp_account \in {NoAccount, whatsapp_account}))

KeywordMatches(kw, message_text) ==
    LET keyword == IF kw.case_sensitive THEN kw.keyword ELSE Lower(kw.keyword)
        text == Strip(IF kw.case_sensitive THEN message_text
                      ELSE Lower(message_text))
    IN CASE kw.match_type = "Exact" -> text = keyword
         [] kw.match_type = "Contains" -> Contains(keyword, text)
         [] kw.match_type = "Starts With" -> StartsWith(text, keyword)
         [] OTHER -> FALSE

\* the first matching keyword row, NoKeyword when none matches
\* Mutant: the last matching row wins.
check_opt_out_keyword_last(message_text, whatsapp_account) ==
    LET keywords == get_opt_out_keywords(whatsapp_account)
        hits == {i \in 1..Len(keywords) : KeywordMatches(keywords[i], message_text)}
    IN IF message_text = <<>> THEN NoKeyword
       ELSE IF ~settings.enable_opt_out_detection THEN NoKeyword
       ELSE IF hits = {} THEN NoKeyword
       ELSE keywords[CHOOSE i \in hits : \A j \in hits : i >= j]

check_opt_out_keyword(message_text, whatsapp_account) ==
    LET keywords == get_opt_out_keywords(whatsapp_account)
        hits == {i \in 1..Len(keywords) : KeywordMatches(keywords[i], message_text)}
    IN IF message_text = <<>> THEN NoKeyword
       ELSE IF ~settings.enable_opt_out_detection THEN NoKeyword
       ELSE IF hits = {} THEN NoKeyword
       ELSE keywords[CHOOSE i \in hits : \A j \in hits : i <= j]

check_opt_in_keyword(message_text) ==
    IF message_text = <<>> THEN FALSE
    ELSE IF ~settings.enable_opt_in_detection THEN FALSE
    ELSE LET pieces == Split(settings.opt_in_keywords)
             opt_in_words == {Lower(Strip(pieces[i])) :
                                 i \in {k \in 1..Len(pieces) : Strip(pieces[k]) # <<>>}}
         IN Lower(Strip(message_text)) \in opt_in_words

----------------------------------------------------------------------------
(* Compliance Rule Engine: 24-hour conversation window *)

\* frappe.get_all("WhatsApp Message", filters={type, from[, whatsapp_account]})
IncomingFrom(number, whatsapp_account) ==
    {i \in 1..Len(messages) :
        /\ messages[i].type = "Incoming"
        /\ messages[i].from = number
        /\ (whatsapp_account # NoAccount
              => messages[i].whatsapp_account = whatsapp_account)}

\* order_by="creation desc", limit=1
LastCreation(rows) ==
    CHOOSE c \in {messages[i].creation : i \in rows} :
        \A i \in rows : messages[i].creation <= c

\* int(settings.window_hours or 24)
WindowHours == IF settings.window_hours = 0 THEN DefaultWindowHours
               ELSE settings.window_hours

\* Mutant: the window closes at the limit (< instead of <=).
is_within_window_strict(phone_number, whatsapp_account) ==
    IF ~settings.enforce_24_hour_window THEN TRUE
    ELSE LET number == format_number(phone_number)
             rows == IncomingFrom(number, whatsapp_account) IN
    IF number = <<>> THEN FALSE
    ELSE IF rows = {} THEN FALSE
    ELSE (now - LastCreation(rows)) < WindowHours * TicksPerHour

\* time_diff_in_hours(now, creation) <= window_hours, in ticks
is_within_conversation_window(phone_number, whatsapp_account) ==
    IF ~settings.enforce_24_hour_window THEN TRUE
    ELSE LET number == format_number(phone_number) IN
    IF number = <<>> THEN FALSE
    ELSE LET last_incoming == IncomingFrom(number, whatsapp_account) IN
    IF last_incoming = {} THEN FALSE
    ELSE (now - LastCreation(last_incoming)) <= WindowHours * TicksPerHour

----------------------------------------------------------------------------
(* Compliance Rule Engine: marketing template footer *)

\* TRUE when the function returns, FALSE when it raises (frappe.throw)
enforce_marketing_template_compliance(template) ==
    IF template = NoTemplate \/ templates[template].category # "MARKETING"
    THEN TRUE
    ELSE IF ~settings.include_unsubscribe_in_marketing
    THEN TRUE
    ELSE LET own == Strip(templates[template].unsubscribe_text)
             unsubscribe_text ==
                 IF own # <<>> THEN own
                 ELSE Strip(settings.default_unsubscribe_text)
             footer == Strip(templates[template].footer) IN
    IF unsubscribe_text = <<>> THEN FALSE
    ELSE Contains(unsubscribe_text, footer)

----------------------------------------------------------------------------
(* Records of the stores *)

MkSettings(mode, enforce, transactional, window, hours, outside, unsub, text) ==
    [consent_check_mode |-> mode,
     enforce_consent_check |-> enforce,
     allow_transactional_without_consent |-> transactional,
     enforce_24_hour_window |-> window,
     window_hours |-> hours,
     allow_reply_outside_window |-> outside,
     include_unsubscribe_in_marketing |-> unsub,
     default_unsubscribe_text |-> text,
     enable_opt_out_detection |-> TRUE,
     enable_opt_in_detection |-> TRUE,
     opt_in_keywords |-> <<"S", "T", "A", "R", "T", ",", " ">> \o Yes]

ConsentModes == {"Strict", "Warning Only", "Disabled"}

MkProfile(number, dnc, opted_out, opted_in, consents) ==
    [number |-> number,
     do_not_contact |-> dnc,
     is_opted_out |-> opted_out,
     is_opted_in |-> opted_in,
     consent_status |-> IF opted_out THEN "Opted Out"
                        ELSE IF opted_in THEN "Opted In" ELSE "Unknown",
     opted_out_source |-> IF opted_out THEN "Keyword" ELSE "",
     consents |-> consents]

\* a Profile as create_whatsapp_profile inserts it: every flag at its default
NewProfile(number) ==
    MkProfile(number, FALSE, FALSE, FALSE, [c \in Categories |-> "absent"])

MkTemplate(category, unsub, footer, transactional, consent_category) ==
    [category |-> category,
     unsubscribe_text |-> unsub,
     footer |-> footer,
     is_transactional |-> transactional,
     required_consent_category |-> consent_category]

TemplateNames == {"promo_bare", "promo_ok", "promo_blank", "utility"}

\* the provider's id of each template ("" for one not yet submitted) and its
\* approval status
TemplateRows ==
    [t \in TemplateNames |->
        [id |-> CASE t = "promo_bare" -> "T1"
                  [] t = "promo_ok" -> "T2"
                  [] OTHER -> "",
         status |-> "PENDING"]]

TemplateStore ==
    [t \in TemplateNames |->
        CASE t = "promo_bare" ->
                 MkTemplate("MARKETING", <<>>, <<>>, FALSE, "promo")
          [] t = "promo_ok" ->
                 MkTemplate("MARKETING", <<"u">>, <<" ", "x", "u">>, FALSE, "promo")
          [] t = "promo_blank" ->
                 MkTemplate("MARKETING", <<" ">>, <<"u", "x">>, FALSE, NoCategory)
          [] OTHER ->
                 MkTemplate("UTILITY", <<>>, <<>>, TRUE, NoCategory)]

NoRoutes == [k \in {} |-> NoApp]

IdleTask == [pc |-> "idle", last_app |-> NoApp]

NoPayload == [present |-> FALSE]

NoSend == [sent |-> FALSE]

\* the variables a specification does not exercise, at their initial values
QuietSend == lastSend = NoSend
QuietCalls == consentCall = NoCall /\ windowCall = NoCall
QuietWebhook ==
    /\ task = [w \in Workers |-> IdleTask]
    /\ payload = NoPayload
    /\ deliveries = 0
    /\ completed = 0
    /\ jobs = <<>>

NoTxn == [pc |-> "idle"]

NoCommitted == [profiles |-> <<>>, consent_log |-> <<>>]

NoRequest == [method |-> ""]

QuietConsentOps ==
    /\ consent_log = <<>>
    /\ committed = NoCommitted
    /\ consentTxn = NoTxn
    /\ calls = <<>>

IdleRouteTask == [pc |-> "idle", n |-> 0]

NoClientApps == [a \in {} |-> [enabled |-> FALSE, inbound_webhook_url |-> ""]]

NoDefaults == [a \in {} |-> [is_default_incoming |-> FALSE,
                             is_default_outgoing |-> FALSE]]

NoBulk == [status |-> ""]

IdleProfileTask == [pc |-> "idle"]

QuietAdmin ==
    /\ confirmCall = NoCall
    /\ default_flags = NoDefaults
    /\ saveStack = <<>>
    /\ bulk = NoBulk
    /\ profileTask = [w \in Workers |-> IdleProfileTask]
    /\ keyword_rows = DefaultKeywords
    /\ keywordCall = NoCall

QuietExtra ==
    /\ routeTask = [w \in Workers |-> IdleRouteTask]
    /\ client_apps = NoClientApps
    /\ forwardCall = NoCall
    /\ downloadCall = NoCall
    /\ template_rows = TemplateRows
    /\ payloadCall = NoCall
    /\ transmitCall = NoCall
    /\ QuietAdmin

QuietHttp ==
    /\ notification_log = <<>> /\ lastHttp = NoRequest /\ statusCall = NoCall
    /\ accounts = <<>> /\ routeCalls = <<>> /\ routeRead = NoCall
    /\ QuietExtra

MkMessage(type, from, to, message_id, content_type, message_type, account, routed_app, source_app, status) ==
    [type |-> type,
     from |-> from,
     to |-> to,
     message_id |-> message_id,
     content_type |-> content_type,
     message_type |-> message_type,
     whatsapp_account |-> account,
     routed_app |-> routed_app,
     source_app |-> source_app,
     status |-> status,
     is_opt_out_request |-> FALSE,
     is_opt_in_request |-> FALSE,
     conversation_id |-> "",
     attach |-> "",
     creation |-> now]

\* the provider message id the Cloud API returns for an accepted send
ProviderId == <<"out", Len(messages) + 1>>

----------------------------------------------------------------------------
(* Conversation Router (utils/routing.py) *)

DashedAccount == "2-A"

\* the characters of an account name (one-letter names are one character)
NameChars(whatsapp_account) ==
    IF whatsapp_account = DashedAccount THEN <<"2", "-", "A">>
    ELSE <<whatsapp_account>>

\* doc_name = contact + "-" + whatsapp_account
RouteKey(contact, whatsapp_account) ==
    contact \o <<"-">> \o NameChars(whatsapp_account)

\* the routes after set_last_sender_app
set_last_sender_app(whatsapp_account, to_number, source_app) ==
    LET contact == format_number(to_number) IN
    IF ~(whatsapp_account # NoAccount /\ contact # <<>> /\ source_app # NoApp)
    THEN routes
    ELSE [k \in DOMAIN routes \cup {RouteKey(contact, whatsapp_account)} |->
             IF k = RouteKey(contact, whatsapp_account) THEN source_app
             ELSE routes[k]]

get_last_sender_app(whatsapp_account, contact_number) ==
    LET contact == format_number(contact_number) IN
    IF ~(whatsapp_account # NoAccount /\ contact # <<>>) THEN NoApp
    ELSE IF RouteKey(contact, whatsapp_account) \in DOMAIN routes
    THEN routes[RouteKey(contact, whatsapp_account)]
    ELSE NoApp

----------------------------------------------------------------------------
(* Outbound Send Orchestrator: WhatsApp Message insert *)

\* the profiles after create_whatsapp_profile: exists check, then insert
create_whatsapp_profile(from, to) ==
    LET number == format_number(IF from # <<>> THEN from ELSE to) IN
    IF ProfileRows(number) # {} THEN profiles
    ELSE Append(profiles, NewProfile(number))

\* the ConsentResult _check_consent obtains; it raises when not allowed
_check_consent(doc) ==
    LET hasTemplate == doc.template # NoTemplate
        is_transactional ==
            IF hasTemplate THEN templates[doc.template].is_transactional
            ELSE FALSE
        consent_category ==
            IF hasTemplate THEN templates[doc.template].required_consent_category
            ELSE NoCategory
    IN verify_consent_for_send(doc.to, consent_category, is_transactional)

\* "within", "outside" (allowed by the settings) or "blocked" (raises)
_check_conversation_window(doc) ==
    IF is_within_conversation_window(doc.to, doc.whatsapp_account)
    THEN "within"
    ELSE IF settings.allow_reply_outside_window THEN "outside"
    ELSE "blocked"

\* before_insert of an Outgoing document, against a provider that accepts
\* the request ("accepted") or fails it ("error"): which checks ran, whether
\* the provider API was called, and how the hook ended
before_insert(doc, provider) ==
    LET unsent == doc.to # <<>> /\ doc.message_id = NoId
        consent ==
            IF ~unsent THEN "skipped"
            ELSE IF _check_consent(doc).allowed THEN "allowed" ELSE "denied"
        manual == doc.message_type # "Template"
        window ==
            IF consent = "allowed" /\ manual
            THEN _check_conversation_window(doc) ELSE "skipped"
        passed == consent # "denied" /\ window # "blocked"
        template_send == ~manual /\ doc.message_id = NoId
        compliance ==
            IF passed /\ template_send /\ doc.template # NoTemplate
            THEN IF enforce_marketing_template_compliance(doc.template)
                 THEN "pass" ELSE "fail"
            ELSE "skipped"
        api == passed /\ (manual \/ compliance = "pass")
        outcome ==
            CASE consent = "denied" -> "ConsentDenied"
              [] window = "blocked" -> "WindowClosed"
              [] passed /\ template_send /\ doc.template = NoTemplate ->
                     "TemplateRequired"
              [] compliance = "fail" -> "ComplianceViolation"
              [] api /\ provider = "error" -> "ProviderError"
              [] OTHER -> "inserted"
    IN [consent |-> consent,
        window |-> window,
        compliance |-> compliance,
        api |-> api,
        outcome |-> outcome,
        message_id |-> IF api /\ provider = "accepted" THEN ProviderId
                       ELSE doc.message_id,
        status |-> IF manual THEN (IF provider = "accepted" THEN "Success"
                                   ELSE "Failed")
                   ELSE ""]

OutgoingDocs ==
    [to : {Empty, N1, PlusN1},
     message_type : {"Manual"},
     template : {NoTemplate},
     message_id : {NoId, <<"preset", 1>>},
     source_app : {NoApp} \cup Apps,
     whatsapp_account : {"A"}]
    \cup
    [to : {Empty, N1, PlusN1},
     message_type : {"Template"},
     template : {NoTemplate} \cup TemplateNames,
     message_id : {NoId, <<"preset", 1>>},
     source_app : {NoApp} \cup Apps,
     whatsapp_account : {"A"}]

Outgoing == {i \in 1..Len(messages) : messages[i].type = "Outgoing"}

\* bound of the exploration: at most MaxOutgoing Outgoing records are stored,
\* and a send that raised is the last one of its behaviour
SendAllowed ==
    /\ Cardinality(Outgoing) < MaxOutgoing
    /\ (lastSend.sent => lastSend.outcome = "inserted")

SendRecord(path, doc, run) ==
    [sent |-> TRUE,
     path |-> path,
     to |-> doc.to,
     message_type |-> doc.message_type,
     template |-> doc.template,
     preset |-> doc.message_id # NoId,
     whatsapp_account |-> doc.whatsapp_account,
     consent |-> run.consent,
     window |-> run.window,
     compliance |-> run.compliance,
     api |-> run.api,
     outcome |-> run.outcome]

\* WhatsAppMessage insert of an Outgoing document: before_insert, the row
\* insert, after_insert.  An exception in before_insert aborts the insert.
InsertOutgoingDoc(doc, provider) ==
    LET run == before_insert(doc, provider) IN
    /\ lastSend' = SendRecord("message", doc, run)
    /\ IF run.outcome = "inserted"
       THEN /\ profiles' = create_whatsapp_profile(<<>>, doc.to)
            /\ messages' = Append(messages,
                   MkMessage("Outgoing", <<>>, doc.to, run.message_id,
                             "text", doc.message_type,
                             doc.whatsapp_account, NoApp, doc.source_app,
                             run.status))
            /\ routes' = IF doc.source_app # NoApp /\ doc.to # <<>>
                             /\ doc.whatsapp_account # NoAccount
                          THEN set_last_sender_app(doc.whatsapp_account,
                                                   doc.to, doc.source_app)
                          ELSE routes
       ELSE UNCHANGED <<profiles, messages, routes>>

InsertOutgoing ==
    \E doc \in OutgoingDocs, provider \in {"accepted", "error"} :
        /\ SendAllowed
        /\ InsertOutgoingDoc(doc, provider)
        /\ UNCHANGED <<consentVars, httpVars>>
        /\ UNCHANGED <<settings, templates, now, ticks, task, payload,
                       deliveries, completed, jobs, consentCall, windowCall>>

----------------------------------------------------------------------------
(* WhatsApp Notification: template sends (whatsapp_notification.py) *)

\* send_simple_template / send_template_message, then notify: the provider
\* API is called with the template payload; when it returns a message id a
\* WhatsApp Message carrying that id is saved as the record of the send.
\* Every exception is caught inside notify.
notify(contact, template, provider) ==
    LET doc == [to |-> format_number(contact),
                message_type |-> "Template",
                template |-> template,
                message_id |-> ProviderId,
                source_app |-> NoApp,
                whatsapp_account |-> "A"]
        run == before_insert(doc, provider)
    IN
    /\ lastSend' =
           [SendRecord("notification", doc, run) EXCEPT
               !.to = contact,
               !.preset = FALSE,
               !.api = TRUE,
               !.outcome = IF provider = "accepted" THEN run.outcome
                           ELSE "ProviderError"]
    /\ IF provider = "accepted" /\ run.outcome = "inserted"
       THEN /\ profiles' = create_whatsapp_profile(<<>>, doc.to)
            /\ messages' = Append(messages,
                   MkMessage("Outgoing", <<>>, doc.to, doc.message_id,
                             "text", "Template", doc.whatsapp_account,
                             NoApp, NoApp, run.status))
       ELSE UNCHANGED <<profiles, messages>>

NotificationNotify ==
    \E contact \in {N1, PlusN1}, template \in TemplateNames,
       provider \in {"accepted", "error"} :
        /\ SendAllowed
        /\ notify(contact, template, provider)
        /\ UNCHANGED <<consentVars, httpVars>>
        /\ UNCHANGED <<settings, templates, routes, now, ticks, task, payload,
                       deliveries, completed, jobs, consentCall, windowCall>>

----------------------------------------------------------------------------
(* Webhook Ingestion Pipeline: _process_incoming_message (utils/webhook.py) *)

\* the index on_doctype_update adds to WhatsApp Message
on_doctype_update ==
    [fields |-> <<"reference_doctype", "reference_name">>, unique |-> FALSE]

\* whether the store refuses a second row with the same message_id
MessageIdUnique ==
    on_doctype_update.unique /\ on_doctype_update.fields = <<"message_id">>

\* frappe.db.exists("WhatsApp Message", {"message_id": msg_id})
MessageExists(msg_id) ==
    \E i \in 1..Len(messages) : messages[i].message_id = msg_id

MediaTypes == {"image", "audio", "video", "document"}

\* inbound messages: type, interactive sub-type, whether a media id is given
Payloads ==
    [present : {TRUE},
     from : {Empty, N1},
     id : {NoId, <<"wamid", 1>>},
     type : {"text"},
     text : {Hello, Stop, StopLower, Yes},
     interactive_type : {""},
     media_id : {FALSE}]
    \cup
    [present : {TRUE},
     from : {Empty, N1},
     id : {NoId, <<"wamid", 1>>},
     type : {"sticker", ""},
     text : {<<>>},
     interactive_type : {""},
     media_id : {FALSE}]
    \cup
    [present : {TRUE},
     from : {Empty, N1},
     id : {NoId, <<"wamid", 1>>},
     type : {"interactive"},
     text : {<<>>},
     interactive_type : {"button_reply", "list_reply", "nfm_reply", "other"},
     media_id : {FALSE}]
    \cup
    [present : {TRUE},
     from : {Empty, N1},
     id : {NoId, <<"wamid", 1>>},
     type : MediaTypes,
     text : {<<>>},
     interactive_type : {""},
     media_id : BOOLEAN]

\* the content_type of the Message the dispatch creates, "" when it creates none
ContentType(message) ==
    CASE message.type = "text" -> "text"
      [] message.type = "interactive"
             /\ message.interactive_type \in {"button_reply", "list_reply"} ->
                 "button"
      [] message.type = "interactive"
             /\ message.interactive_type = "nfm_reply" -> "flow"
      [] message.type = "interactive" -> ""
      [] message.type \in MediaTypes -> message.type
      [] message.type = "" -> "unknown"
      [] OTHER -> message.type

Job(kind, name) == [job |-> kind, message |-> name]

\* the jobs enqueued after the Message `name` was inserted
JobsFor(message, name) ==
    CASE message.type = "interactive" /\ message.interactive_type = "nfm_reply" ->
             <<Job("publish_flow_realtime", name), Job("forward", name)>>
      [] message.type \in MediaTypes /\ message.media_id ->
             <<Job("forward", name), Job("download_and_attach_media", name)>>
      [] OTHER -> <<Job("forward", name)>>

\* Mutant: the dispatch opts the sender out whenever it stores a message.
InsertIncomingOptOut(message, whatsapp_account, last_app) ==
    IF \/ ContentType(message) = ""
       \/ (MessageIdUnique /\ message.id # NoId /\ MessageExists(message.id))
    THEN UNCHANGED <<profiles, messages, jobs>>
    ELSE /\ profiles' =
               [i \in 1..Len(create_whatsapp_profile(message.from, <<>>)) |->
                   [create_whatsapp_profile(message.from, <<>>)[i] EXCEPT
                       !.is_opted_out = TRUE, !.is_opted_in = FALSE,
                       !.consent_status = "Opted Out"]]
         /\ messages' = Append(messages,
                MkMessage("Incoming", message.from, <<>>, message.id,
                          ContentType(message), "Manual", whatsapp_account,
                          last_app, NoApp, ""))
         /\ jobs' = jobs \o JobsFor(message, Len(messages) + 1)

\* the dispatch of one message: the Message insert (with the Profile its
\* before_insert creates) and the jobs enqueued after it
InsertIncoming(message, whatsapp_account, last_app) ==
    IF \/ ContentType(message) = ""
       \/ (MessageIdUnique /\ message.id # NoId /\ MessageExists(message.id))
    THEN UNCHANGED <<profiles, messages, jobs>>
    ELSE /\ profiles' = create_whatsapp_profile(message.from, <<>>)
         /\ messages' = Append(messages,
                MkMessage("Incoming", message.from, <<>>, message.id,
                          ContentType(message), "Manual", whatsapp_account,
                          last_app, NoApp, ""))
         /\ jobs' = jobs \o JobsFor(message, Len(messages) + 1)

\* lines 148-169: sender number, route lookup, reply context
Start(w) ==
    /\ task[w].pc = "idle"
    /\ deliveries < MaxDeliveries
    /\ deliveries' = deliveries + 1
    /\ IF payload.from = <<>>
       THEN /\ completed' = completed + 1
            /\ UNCHANGED task
       ELSE /\ task' = [task EXCEPT ![w] =
                           [pc |-> "dedupe",
                            last_app |-> get_last_sender_app("A", payload.from)]]
            /\ UNCHANGED completed
    /\ UNCHANGED <<consentVars, httpVars>>
    /\ UNCHANGED <<settings, templates, profiles, messages, routes, now,
                   ticks, payload, jobs, consentCall, windowCall, lastSend>>

\* lines 171-174: the idempotency guard
Dedupe(w) ==
    /\ task[w].pc = "dedupe"
    /\ IF payload.id # NoId /\ MessageExists(payload.id)
       THEN /\ task' = [task EXCEPT ![w] = IdleTask]
            /\ completed' = completed + 1
       ELSE /\ task' = [task EXCEPT ![w].pc = "insert"]
            /\ UNCHANGED completed
    /\ UNCHANGED <<consentVars, httpVars>>
    /\ UNCHANGED <<settings, templates, profiles, messages, routes, now,
                   ticks, payload, deliveries, jobs, consentCall, windowCall,
                   lastSend>>

\* lines 176-249 and _handle_interactive: dispatch by type, insert, enqueue
Insert(w) ==
    /\ task[w].pc = "insert"
    /\ task' = [task EXCEPT ![w] = IdleTask]
    /\ completed' = completed + 1
    /\ InsertIncoming(payload, "A", task[w].last_app)
    /\ UNCHANGED <<consentVars, httpVars>>
    /\ UNCHANGED <<settings, templates, routes, now, ticks, payload,
                   deliveries, consentCall, windowCall, lastSend>>

----------------------------------------------------------------------------
(* Specifications of the webhook task: the provider delivers one inbound   *)
(* message up to MaxDeliveries times (at-least-once delivery), to one      *)
(* worker (SpecSeq: one delivery after the other) or to two workers whose  *)
(* steps interleave (SpecWebhook).                                         *)

QuietSettings == MkSettings("Strict", TRUE, FALSE, TRUE, 0, FALSE, TRUE, <<>>)

EarlierId == <<"wamid", 2>>

InitWebhook ==
    /\ settings = QuietSettings
    /\ templates = TemplateStore
    /\ now = 0
    /\ ticks = 0
    /\ \/ messages = <<>> /\ profiles = <<>>
       \/ /\ messages = <<MkMessage("Incoming", N1, <<>>, EarlierId, "text",
                                    "Manual", "A", NoApp, NoApp, "")>>
          /\ profiles = <<MkProfile(N1, FALSE, FALSE, TRUE,
                                    [c \in Categories |-> "yes"])>>
    /\ routes \in {NoRoutes, [k \in {RouteKey(N1, "A")} |-> "app1"]}
    /\ task = [w \in Workers |-> IdleTask]
    /\ payload \in Payloads
    /\ deliveries = 0
    /\ completed = 0
    /\ jobs = <<>>
    /\ QuietCalls
    /\ QuietSend
    /\ QuietConsentOps
    /\ QuietHttp

NextSeq == Start("w1") \/ Dedupe("w1") \/ Insert("w1")

SpecSeq == InitWebhook /\ [][NextSeq]_vars

NextWebhook == \E w \in Workers : Start(w) \/ Dedupe(w) \/ Insert(w)

SpecWebhook == InitWebhook /\ [][NextWebhook]_vars

StoredWithId(id) == {i \in 1..Len(messages) : messages[i].message_id = id}

\* C1 as stated: after the same inbound payload (with a sender and a
\* provider message id, any content kind) was processed twice in sequence,
\* exactly one Message carries that provider message id.
C1_ExactlyOneAfterTwo ==
    (payload.from # <<>> /\ payload.id # NoId /\ completed >= 2)
        => Cardinality(StoredWithId(payload.id)) = 1

\* C2 as stated: however the existence checks and inserts of concurrent
\* tasks interleave, at most one Message carries a given provider message id.
C2_AtMostOnePerMessageId ==
    \A i, j \in 1..Len(messages) :
        (messages[i].message_id # NoId
            /\ messages[i].message_id = messages[j].message_id) => i = j

\* the consent fields of a Profile
ConsentFields(p) ==
    <<p.is_opted_in, p.is_opted_out, p.do_not_contact, p.consent_status, p.consents>>

OptOutEntries(number) ==
    {i \in 1..Len(consent_log) :
        consent_log[i].action = "Opt-Out" /\ consent_log[i].phone_number = number}

\* C11 as stated: once an inbound text message whose body matches the
\* configured opt-out keyword "STOP" has been processed, the sender's
\* Profile is opted out and exactly one Opt-Out entry is in the consent log.
C11_StopOptsOut ==
    (payload.type = "text" /\ payload.from # <<>> /\ completed >= 1
        /\ check_opt_out_keyword(payload.text, "A") # NoKeyword)
        => /\ ProfileRows(payload.from) # {}
           /\ profiles[FirstProfile(payload.from)].is_opted_out
           /\ Cardinality(OptOutEntries(payload.from)) = 1

\* the step in which worker w1 dispatches a text message that matches no
\* opt-out and no opt-in keyword
PlainTextDispatch ==
    /\ task["w1"].pc = "insert" /\ task'["w1"].pc = "idle"
    /\ payload.type = "text"
    /\ check_opt_out_keyword(payload.text, "A") = NoKeyword
    /\ ~check_opt_in_keyword(payload.text)

\* C12: processing an inbound text message that matches no opt-out and no
\* opt-in keyword creates its Message, changes no consent field of any
\* Profile and appends no consent log entry.
C12_PlainTextNoConsentChange ==
    [][PlainTextDispatch =>
          /\ Len(messages') = Len(messages) + 1
          /\ messages'[Len(messages')].message_id = payload.id
          /\ \A i \in 1..Len(profiles) :
                /\ profiles'[i].number = profiles[i].number
                /\ ConsentFields(profiles'[i]) = ConsentFields(profiles[i])
          /\ consent_log' = consent_log]_vars

\* "hello" from an opted-in contact was processed: stored, still opted in
C12_Witness ==
    /\ completed >= 1
    /\ payload.type = "text" /\ payload.text = Hello /\ payload.from = N1
    /\ \E i \in 1..Len(messages) :
          messages[i].message_id = payload.id /\ messages[i].creation = now
              /\ messages[i].content_type = "text"
    /\ StoredWithId(EarlierId) # {}
    /\ profiles[FirstProfile(N1)].is_opted_in
    /\ consent_log = <<>>

----------------------------------------------------------------------------
(* Specification of consent verification: every settings combination and  *)
(* every Profile state of number 1; the action calls the function.         *)

ConsentPhones == {Empty, N1, PlusN1, N2}

InitConsent ==
    /\ settings \in {MkSettings(m, e, t, FALSE, 0, FALSE, FALSE, <<>>) :
                        m \in ConsentModes, e \in BOOLEAN, t \in BOOLEAN}
    /\ templates = TemplateStore
    /\ profiles \in {<<>>} \cup
           {<<MkProfile(N1, d, o, i, [c \in Categories |-> r])>> :
               d \in BOOLEAN, o \in BOOLEAN, i \in BOOLEAN,
               r \in {"absent", "yes", "no"}}
    /\ messages = <<>>
    /\ routes = NoRoutes
    /\ now = 0
    /\ ticks = 0
    /\ QuietWebhook
    /\ QuietCalls
    /\ QuietSend
    /\ QuietConsentOps
    /\ QuietHttp

VerifyConsent ==
    \E phone \in ConsentPhones, category \in {NoCategory} \cup Categories,
       transactional \in BOOLEAN :
        /\ consentCall' =
               [called |-> TRUE,
                phone_number |-> phone,
                consent_category |-> category,
                is_transactional |-> transactional,
                result |-> verify_consent_for_send(phone, category, transactional)]
        /\ UNCHANGED <<consentVars, httpVars>>
        /\ UNCHANGED <<settings, templates, profiles, messages, routes, now,
                       ticks, task, payload, deliveries, completed, jobs,
                       windowCall, lastSend>>

NextConsent == VerifyConsent

SpecConsent == InitConsent /\ [][NextConsent]_vars

(* What the claims about consent verification speak of *)

CalledNumber == format_number(consentCall.phone_number)
CalledHasProfile == \E i \in 1..Len(profiles) : profiles[i].number = CalledNumber
CalledProfile ==
    profiles[CHOOSE i \in 1..Len(profiles) : profiles[i].number = CalledNumber]
EnforcementOn ==
    settings.consent_check_mode # "Disabled" /\ settings.enforce_consent_check
Denied(status) == consentCall.result = ConsentResult(FALSE, status)
Allowed(status) == consentCall.result = ConsentResult(TRUE, status)

\* C5 as stated: for every Profile with do_not_contact set,
\* verifyConsentForSend returns denied (Opted Out) whatever is_opted_in,
\* is_transactional, the category and any bypass setting are.
C5_DoNotContactAlwaysDenied ==
    (consentCall.called /\ CalledHasProfile /\ CalledProfile.do_not_contact)
        => Denied("Opted Out")

\* C5 amended: with consent enforcement in effect (mode not Disabled and
\* enforce_consent_check set), verifyConsentForSend returns denied/Opted Out
\* for every Profile with do_not_contact set, whatever is_opted_in,
\* is_transactional, the category and the transactional bypass are; with
\* enforcement off the same call is allowed with status Bypassed.
C5_DoNotContactDeniedWhenEnforced ==
    (consentCall.called /\ CalledHasProfile /\ CalledProfile.do_not_contact)
        => IF EnforcementOn THEN Denied("Opted Out") ELSE Allowed("Bypassed")

C5_Witness ==
    /\ consentCall.called
    /\ CalledHasProfile
    /\ CalledProfile.do_not_contact
    /\ CalledProfile.is_opted_in
    /\ consentCall.is_transactional
    /\ settings.allow_transactional_without_consent
    /\ EnforcementOn
    /\ Denied("Opted Out")

\* C6 as stated: for every phone number without a Profile, with
\* isTransactional=false and enforcement mode Strict, verifyConsentForSend
\* returns denied with status Unknown.
C6_NoProfileStrictDenied ==
    (/\ consentCall.called
     /\ CalledNumber # <<>>
     /\ ~CalledHasProfile
     /\ ~consentCall.is_transactional
     /\ settings.consent_check_mode = "Strict")
        => Denied("Unknown")

\* C6 amended: for every phone number without a Profile, with
\* isTransactional=false, enforcement mode Strict and the
\* enforce_consent_check flag set, verifyConsentForSend returns denied with
\* status Unknown; with the flag off it returns allowed/Bypassed.
C6_NoProfileStrictEnforcedDenied ==
    (/\ consentCall.called
     /\ CalledNumber # <<>>
     /\ ~CalledHasProfile
     /\ ~consentCall.is_transactional
     /\ settings.consent_check_mode = "Strict")
        => IF settings.enforce_consent_check THEN Denied("Unknown")
           ELSE Allowed("Bypassed")

C6_Witness ==
    /\ consentCall.called
    /\ consentCall.phone_number = PlusN1
    /\ profiles = <<>>
    /\ ~consentCall.is_transactional
    /\ settings.consent_check_mode = "Strict"
    /\ settings.enforce_consent_check
    /\ Denied("Unknown")

\* The eight-step decision order of the specification, as an ordered list
\* of rules; the decision is the outcome of the first rule that applies.
Rule(applies, allowed, status) ==
    [applies |-> applies, allowed |-> allowed, status |-> status]

TransactionalBypass ==
    consentCall.is_transactional /\ settings.allow_transactional_without_consent

DecisionRules ==
    LET hasProfile == CalledHasProfile
        category == consentCall.consent_category
    IN <<
      \* 1. enforcement disabled
      Rule(settings.consent_check_mode = "Disabled", TRUE, "Bypassed"),
      Rule(~settings.enforce_consent_check, TRUE, "Bypassed"),
      \* 2. number cannot be normalized
      Rule(CalledNumber = <<>>, TRUE, "Unknown"),
      \* 3. no Profile
      Rule(~hasProfile /\ TransactionalBypass, TRUE, "Bypassed"),
      Rule(~hasProfile /\ settings.consent_check_mode = "Warning Only",
           TRUE, "Unknown"),
      Rule(~hasProfile, FALSE, "Unknown"),
      \* 4. do_not_contact
      Rule(hasProfile /\ CalledProfile.do_not_contact, FALSE, "Opted Out"),
      \* 5. opted out
      Rule(hasProfile /\ CalledProfile.is_opted_out, FALSE, "Opted Out"),
      \* 6. category explicitly not consented
      Rule(hasProfile /\ category # NoCategory
             /\ CalledProfile.consents[category] = "no", FALSE, "Opted Out"),
      \* 7. opted in
      Rule(hasProfile /\ CalledProfile.is_opted_in, TRUE, "Opted In"),
      \* 8. Unknown / Partial
      Rule(TransactionalBypass, TRUE, "Bypassed"),
      Rule(settings.consent_check_mode = "Warning Only", TRUE, "Unknown"),
      Rule(TRUE, FALSE, "Unknown") >>

FirstMatchingRule ==
    LET rules == DecisionRules
        first == CHOOSE i \in 1..Len(rules) :
                    rules[i].applies /\ \A j \in 1..(i - 1) : ~rules[j].applies
    IN rules[first]

\* C7: for every combination of settings, number, Profile state, category
\* row and is_transactional, verifyConsentForSend returns the (allowed,
\* status) of the first matching rule of the eight-step decision order.
C7_DecisionOrder ==
    consentCall.called
        => consentCall.result =
               ConsentResult(FirstMatchingRule.allowed, FirstMatchingRule.status)

\* the category rule decides although the Profile is opted in
C7_Witness ==
    /\ consentCall.called
    /\ EnforcementOn
    /\ CalledHasProfile
    /\ ~CalledProfile.do_not_contact
    /\ ~CalledProfile.is_opted_out
    /\ CalledProfile.is_opted_in
    /\ consentCall.consent_category = "promo"
    /\ CalledProfile.consents["promo"] = "no"
    /\ Denied("Opted Out")

----------------------------------------------------------------------------
(* Specification of outbound sends: one WhatsApp Message insert or one     *)
(* WhatsApp Notification send at a time, against every compliance setting, *)
(* every consent state of the recipient and a conversation that is absent, *)
(* fresh, or older than the default window.                                *)

SendProfiles ==
    {MkProfile(N1, d, o, i, [c \in Categories |-> "absent"]) :
        d \in BOOLEAN, o \in BOOLEAN, i \in BOOLEAN}

\* window and footer settings are read only when their switch is on
SendSettings ==
    {x \in {MkSettings(m, e, t, w, 0, o, u, d) :
                m \in ConsentModes, e \in BOOLEAN, t \in BOOLEAN,
                w \in BOOLEAN, o \in BOOLEAN, u \in BOOLEAN,
                d \in {<<>>, <<"u">>}} :
        /\ (x.allow_reply_outside_window => x.enforce_24_hour_window)
        /\ (x.default_unsubscribe_text # <<>>
              => x.include_unsubscribe_in_marketing)}

\* the recipient wrote at time 0 on account "A"
Conversation ==
    <<MkMessage("Incoming", N1, <<>>, EarlierId, "text", "Manual", "A",
                NoApp, NoApp, "")>>

InitSend ==
    /\ settings \in SendSettings
    /\ templates = TemplateStore
    /\ now \in {0, DefaultWindowHours * TicksPerHour + 1}
    /\ ticks = 0
    /\ \/ /\ messages = <<>>
          /\ now = 0
          /\ profiles \in {<<>>} \cup {<<p>> : p \in SendProfiles}
       \/ /\ messages = [Conversation EXCEPT ![1].creation = 0]
          /\ profiles \in {<<p>> : p \in SendProfiles}
    /\ routes = NoRoutes
    /\ QuietWebhook
    /\ QuietCalls
    /\ QuietSend
    /\ QuietConsentOps
    /\ QuietHttp

NextSend == InsertOutgoing \/ NotificationNotify

SpecSend == InitSend /\ [][NextSend]_vars

\* the Profile consent verification reads for the recipient of the last send
Recipient == profiles[FirstProfile(format_number(lastSend.to))]

\* C3 as stated, for a non-template document that names a recipient: when
\* verify_consent_for_send denies the recipient, the outgoing WhatsApp
\* Message insert makes no provider API call.
C3_NoManualSendWithoutConsent ==
    (lastSend.sent /\ lastSend.path = "message"
        /\ lastSend.message_type = "Manual" /\ lastSend.to # <<>>
        /\ ~verify_consent_for_send(lastSend.to, NoCategory, FALSE).allowed)
        => ~lastSend.api

\* C4 as stated: under Strict enforcement a WhatsApp Notification template
\* send makes no provider API call for a recipient whose Profile is opted
\* out or marked do_not_contact.
C4_NotificationGatedByConsent ==
    (lastSend.sent /\ lastSend.path = "notification"
        /\ settings.consent_check_mode = "Strict"
        /\ settings.enforce_consent_check
        /\ ProfileRows(format_number(lastSend.to)) # {}
        /\ (Recipient.do_not_contact \/ Recipient.is_opted_out))
        => ~lastSend.api

\* C9 as stated: a non-template outgoing message to a recipient outside the
\* conversation window makes no provider API call unless the settings allow
\* replies outside the window.
C9_ManualOutsideWindowAborted ==
    (lastSend.sent /\ lastSend.path = "message"
        /\ lastSend.message_type = "Manual" /\ lastSend.to # <<>>
        /\ ~is_within_conversation_window(lastSend.to,
                                          lastSend.whatsapp_account)
        /\ ~settings.allow_reply_outside_window)
        => ~lastSend.api

\* C10 as stated: a template send whose template fails
\* enforce_marketing_template_compliance makes no provider API call.
C10_NonCompliantTemplateAborted ==
    (lastSend.sent /\ lastSend.message_type = "Template"
        /\ lastSend.template # NoTemplate
        /\ ~enforce_marketing_template_compliance(lastSend.template))
        => ~lastSend.api

----------------------------------------------------------------------------
(* Specification of the conversation window: time passes in steps of half  *)
(* an hour, an hour or 23 hours; contacts write on either account; a       *)
(* template send is recorded; the window of a number is asked for.         *)

TickSteps == {1, TicksPerHour, (DefaultWindowHours - 1) * TicksPerHour}

InitWindow ==
    /\ settings \in {MkSettings("Strict", TRUE, FALSE, w, h, FALSE, FALSE, <<>>) :
                        w \in BOOLEAN, h \in {0, 1}}
    /\ (settings.enforce_24_hour_window \/ settings.window_hours = 0)
    /\ templates = TemplateStore
    /\ profiles = <<>>
    /\ messages = <<>>
    /\ routes = NoRoutes
    /\ now = 0
    /\ ticks = 0
    /\ QuietWebhook
    /\ QuietCalls
    /\ QuietSend
    /\ QuietConsentOps
    /\ QuietHttp

\* who writes, and on which account
WindowSenders == {<<N1, "A">>, <<N1, "B">>, <<N2, "A">>}

\* now_datetime() advances
Tick ==
    \E d \in TickSteps :
        /\ ticks < MaxTicks
        /\ now' = now + d
        /\ ticks' = ticks + 1
        /\ windowCall' = NoCall
        /\ UNCHANGED <<consentVars, httpVars>>
        /\ UNCHANGED <<settings, templates, profiles, messages, routes, task,
                       payload, deliveries, completed, jobs, consentCall,
                       lastSend>>

\* _process_incoming_message of a text message with a provider id not yet
\* stored, run from its first line to its last without interleaving
ProcessIncomingText ==
    \E sender \in WindowSenders :
        LET from == sender[1]
            whatsapp_account == sender[2]
            message == [present |-> TRUE, from |-> from,
                        id |-> <<"wamid", Len(messages) + 10>>,
                        type |-> "text", text |-> Hello,
                        interactive_type |-> "",
                        media_id |-> FALSE] IN
        /\ Len(messages) < MaxWinMsgs
        /\ ~MessageExists(message.id)
        /\ InsertIncoming(message, whatsapp_account,
                          get_last_sender_app(whatsapp_account, from))
        /\ windowCall' = NoCall
        /\ UNCHANGED <<consentVars, httpVars>>
        /\ UNCHANGED <<settings, templates, routes, now, ticks, task, payload,
                       deliveries, completed, consentCall, lastSend>>

\* a WhatsApp Notification template send to the contact is recorded
RecordTemplateSend ==
    /\ Len(messages) < MaxWinMsgs
    /\ Cardinality(Outgoing) < MaxOutgoing
    /\ notify(N1, "utility", "accepted")
    /\ windowCall' = NoCall
    /\ UNCHANGED <<consentVars, httpVars>>
    /\ UNCHANGED <<settings, templates, routes, now, ticks, task, payload,
                   deliveries, completed, jobs, consentCall>>

CheckWindow ==
    \E phone_number \in {PlusN1}, whatsapp_account \in {NoAccount, "A"} :
        /\ windowCall' =
               [called |-> TRUE,
                phone_number |-> phone_number,
                whatsapp_account |-> whatsapp_account,
                within |-> is_within_conversation_window(phone_number,
                                                         whatsapp_account)]
        /\ UNCHANGED <<consentVars, httpVars>>
        /\ UNCHANGED <<settings, templates, profiles, messages, routes, now,
                       ticks, task, payload, deliveries, completed, jobs,
                       consentCall, lastSend>>

NextWindow == Tick \/ ProcessIncomingText \/ RecordTemplateSend \/ CheckWindow

SpecWindow == InitWindow /\ [][NextWindow]_vars

\* the Incoming messages from the asked number on the asked account
AskedIncoming ==
    {i \in 1..Len(messages) :
        /\ messages[i].type = "Incoming"
        /\ messages[i].from = format_number(windowCall.phone_number)
        /\ messages[i].whatsapp_account = windowCall.whatsapp_account}

\* the configured window in hours, 24 when unset
ConfiguredHours == IF settings.window_hours = 0 THEN 24 ELSE settings.window_hours

\* C8: asked for a number on an account, is_within_conversation_window
\* answers within when enforcement is disabled; with enforcement enabled it
\* answers within iff an Incoming message from that number on that account
\* exists and the time since the most recent one is at most the configured
\* window (24 hours when unset).  Outgoing messages, messages on the other
\* account and messages of other numbers do not count.
C8_WithinIffRecentIncoming ==
    (windowCall.called /\ windowCall.whatsapp_account # NoAccount)
        => (windowCall.within <=>
              \/ ~settings.enforce_24_hour_window
              \/ \E i \in AskedIncoming :
                    /\ \A j \in AskedIncoming :
                          messages[j].creation <= messages[i].creation
                    /\ now - messages[i].creation
                          <= ConfiguredHours * TicksPerHour)

\* enforcement on, no window configured, the contact last wrote exactly 24
\* hours ago and a template was sent to it since: still within
C8_Witness ==
    /\ windowCall.called
    /\ windowCall.whatsapp_account = "A"
    /\ settings.enforce_24_hour_window
    /\ settings.window_hours = 0
    /\ AskedIncoming # {}
    /\ \A i \in AskedIncoming : now - messages[i].creation = 24 * TicksPerHour
    /\ Outgoing # {}
    /\ windowCall.within

----------------------------------------------------------------------------
(* Consent mutations: process_opt_out, process_opt_in (utils/consent.py)   *)

\* the profiles after _get_or_create_profile: lookup by number, else insert
_get_or_create_profile(contact_number) ==
    LET number == format_number(contact_number) IN
    IF ProfileRows(number) # {} THEN profiles
    ELSE Append(profiles, NewProfile(number))

MkEntry(profile, phone_number, action, category, previous, new, source_message) ==
    [profile |-> profile,
     phone_number |-> phone_number,
     action |-> action,
     consent_category |-> category,
     previous_status |-> previous,
     new_status |-> new,
     source |-> "Webhook",
     source_message |-> source_message]

\* Mutant: an entry equal to the last one is not logged again.
_log_consent_dedup(log, entry) ==
    IF log # <<>> /\ log[Len(log)] = entry THEN log ELSE Append(log, entry)

\* Mutant: the entry replaces the last entry of the log.
_log_consent_overwrite(log, entry) ==
    IF log = <<>> THEN <<entry>> ELSE [log EXCEPT ![Len(log)] = entry]

\* the consent log after _log_consent inserts the entry
_log_consent(log, entry) == Append(log, entry)

\* Mutant: a category opt-out never escalates to a full opt-out.
_category_opt_out_partial(profile, target_category) ==
    LET rows == [c \in Categories |->
                    IF c = target_category /\ profile.consents[c] # "absent"
                    THEN "no" ELSE profile.consents[c]]
    IN [profile EXCEPT !.consents = rows, !.consent_status = "Partial"]

\* the Profile after _category_opt_out, before it is saved
_category_opt_out(profile, target_category) ==
    LET rows == [c \in Categories |->
                    IF c = target_category /\ profile.consents[c] # "absent"
                    THEN "no" ELSE profile.consents[c]]
        all_out == \A c \in Categories : rows[c] # "yes"
    IN IF all_out
       THEN [profile EXCEPT !.consents = rows,
                            !.consent_status = "Opted Out",
                            !.is_opted_out = TRUE,
                            !.is_opted_in = FALSE]
       ELSE [profile EXCEPT !.consents = rows,
                            !.consent_status = "Partial"]

\* process_opt_out up to profile.save: the Profiles as saved and the audit
\* entry that _log_consent is about to insert
process_opt_out(contact_number, keyword_match, message_doc_name) ==
    LET found == _get_or_create_profile(contact_number)
        profile_id == CHOOSE i \in 1..Len(found) :
                          found[i].number = format_number(contact_number)
                              /\ \A j \in 1..(i - 1) :
                                    found[j].number # format_number(contact_number)
        profile == found[profile_id]
        previous_opted_out == profile.is_opted_out
        action == IF keyword_match = NoKeyword THEN "Full Opt-Out"
                  ELSE keyword_match.action
        target_category == keyword_match.target_category
    IN IF action = "Category Opt-Out" /\ target_category # NoCategory
       THEN [profiles |-> [found EXCEPT ![profile_id] =
                               _category_opt_out(profile, target_category)],
             entry |-> MkEntry(profile_id, profile.number, "Category Opt-Out",
                               target_category, TRUE, FALSE, message_doc_name)]
       ELSE [profiles |-> [found EXCEPT ![profile_id] =
                               [profile EXCEPT !.is_opted_out = TRUE,
                                               !.is_opted_in = FALSE,
                                               !.opted_out_source = "Keyword",
                                               !.consent_status = "Opted Out"]],
             entry |-> MkEntry(profile_id, format_number(contact_number),
                               "Opt-Out", NoCategory, previous_opted_out, TRUE,
                               message_doc_name)]

\* Mutant: opting in leaves the opt-out flag as it was.
process_opt_in_keeps_opt_out(contact_number, message_doc_name) ==
    LET found == _get_or_create_profile(contact_number)
        profile_id == CHOOSE i \in 1..Len(found) :
                          found[i].number = format_number(contact_number)
        profile == found[profile_id]
    IN [profiles |-> [found EXCEPT ![profile_id] =
                         [profile EXCEPT !.is_opted_in = TRUE,
                                         !.consent_status = "Opted In"]],
        entry |-> MkEntry(profile_id, format_number(contact_number), "Opt-In",
                          NoCategory, profile.is_opted_in, TRUE,
                          message_doc_name)]

\* process_opt_in up to profile.save
process_opt_in(contact_number, message_doc_name) ==
    LET found == _get_or_create_profile(contact_number)
        profile_id == CHOOSE i \in 1..Len(found) :
                          found[i].number = format_number(contact_number)
                              /\ \A j \in 1..(i - 1) :
                                    found[j].number # format_number(contact_number)
        profile == found[profile_id]
        previous_opted_in == profile.is_opted_in
    IN [profiles |-> [found EXCEPT ![profile_id] =
                         [profile EXCEPT !.is_opted_in = TRUE,
                                         !.is_opted_out = FALSE,
                                         !.opted_out_source = "",
                                         !.consent_status = "Opted In"]],
        entry |-> MkEntry(profile_id, format_number(contact_number), "Opt-In",
                          NoCategory, previous_opted_in, TRUE,
                          message_doc_name)]

----------------------------------------------------------------------------
(* Specification of consent mutations: process_opt_out and process_opt_in  *)
(* run one after the other inside a database transaction.  profiles and    *)
(* consent_log are the rows as the running call sees them; committed holds *)
(* the rows other connections read.  The call saves the Profile, inserts   *)
(* the audit entry and returns, and the transaction is committed; an       *)
(* exception of the audit insert propagates and the transaction is rolled  *)
(* back.                                                                   *)

CategoryRule(target_category) ==
    MkKeyword(<<"N", "O">>, FALSE, "Exact", "Category Opt-Out", target_category, NoAccount)

\* who asks, and the inbound message that carried the request (0: none)
Requests == {<<PlusN1, 1>>, <<N2, 0>>}

ConsentOps ==
    {[kind |-> "opt_out", contact_number |-> r[1], message_doc_name |-> r[2],
      keyword_match |-> k] :
        r \in Requests,
        k \in {NoKeyword, OptOutKeywords[1], CategoryRule("promo"),
               CategoryRule(NoCategory)}}
    \cup
    {[kind |-> "opt_in", contact_number |-> r[1], message_doc_name |-> r[2],
      keyword_match |-> NoKeyword] : r \in Requests}

\* Mutant: saving the Profile commits it at once.
AfterSaveAutocommit(seen, saved) == [seen EXCEPT !.profiles = saved]

\* profile.save(): the row is written in the open transaction; what other
\* connections read stays as it was
AfterSave(seen, saved) == seen

InitOps ==
    /\ settings = QuietSettings
    /\ templates = TemplateStore
    /\ now = 0
    /\ ticks = 0
    /\ messages = <<MkMessage("Incoming", N1, <<>>, EarlierId, "text",
                              "Manual", "A", NoApp, NoApp, "")>>
    /\ profiles \in {<<>>} \cup
           {<<MkProfile(N1, FALSE, FALSE, FALSE, rows)>> :
               rows \in {[c \in Categories |-> "absent"],
                         [c \in Categories |-> "yes"],
                         [c \in Categories |->
                             IF c = "promo" THEN "yes" ELSE "absent"]}}
    /\ routes = NoRoutes
    /\ QuietWebhook
    /\ QuietCalls
    /\ QuietSend
    /\ QuietHttp
    /\ consent_log = <<>>
    /\ committed = [profiles |-> profiles, consent_log |-> <<>>]
    /\ consentTxn = NoTxn
    /\ calls = <<>>

\* the call starts: Profile looked up or created, consent fields set, saved
OptSave ==
    \E op \in ConsentOps :
        LET run == IF op.kind = "opt_out"
                   THEN process_opt_out(op.contact_number, op.keyword_match,
                                        op.message_doc_name)
                   ELSE process_opt_in(op.contact_number, op.message_doc_name)
        IN
        /\ consentTxn.pc = "idle"
        /\ Len(calls) < MaxOps
        /\ profiles' = run.profiles
        /\ committed' = AfterSave(committed, run.profiles)
        /\ consentTxn' = [pc |-> "saved", op |-> op, entry |-> run.entry]
        /\ UNCHANGED <<consent_log, calls, httpVars>>
        /\ UNCHANGED <<settings, templates, messages, routes, now, ticks, task,
                       payload, deliveries, completed, jobs, consentCall,
                       windowCall, lastSend>>

\* _log_consent inserts the audit entry
OptLog ==
    /\ consentTxn.pc = "saved"
    /\ consent_log' = _log_consent(consent_log, consentTxn.entry)
    /\ consentTxn' = [consentTxn EXCEPT !.pc = "logged"]
    /\ UNCHANGED <<profiles, committed, calls, httpVars>>
    /\ UNCHANGED <<settings, templates, messages, routes, now, ticks, task,
                   payload, deliveries, completed, jobs, consentCall,
                   windowCall, lastSend>>

\* the audit insert raises: the call ends with the exception and the
\* transaction is rolled back
OptLogFail ==
    /\ consentTxn.pc = "saved"
    /\ profiles' = committed.profiles
    /\ consent_log' = committed.consent_log
    /\ consentTxn' = NoTxn
    /\ calls' = Append(calls, [op |-> consentTxn.op, outcome |-> "raised"])
    /\ UNCHANGED <<committed, httpVars>>
    /\ UNCHANGED <<settings, templates, messages, routes, now, ticks, task,
                   payload, deliveries, completed, jobs, consentCall,
                   windowCall, lastSend>>

\* the request message is tagged, the call returns, the transaction commits
OptReturn ==
    LET op == consentTxn.op IN
    /\ consentTxn.pc = "logged"
    /\ messages' =
          IF op.message_doc_name = 0 THEN messages
          ELSE IF op.kind = "opt_out"
          THEN [messages EXCEPT ![op.message_doc_name].is_opt_out_request = TRUE]
          ELSE [messages EXCEPT ![op.message_doc_name].is_opt_in_request = TRUE]
    /\ committed' = [profiles |-> profiles, consent_log |-> consent_log]
    /\ consentTxn' = NoTxn
    /\ calls' = Append(calls, [op |-> op, outcome |-> "returned"])
    /\ UNCHANGED <<profiles, consent_log, httpVars>>
    /\ UNCHANGED <<settings, templates, routes, now, ticks, task, payload,
                   deliveries, completed, jobs, consentCall, windowCall,
                   lastSend>>

NextOps == OptSave \/ OptLog \/ OptLogFail \/ OptReturn

SpecOps == InitOps /\ [][NextOps]_vars

----------------------------------------------------------------------------
(* Re-running the full opt-out *)

\* a call took the full opt-out branch of process_opt_out
IsFullOptOut(op) ==
    /\ op.kind = "opt_out"
    /\ ~(op.keyword_match.action = "Category Opt-Out"
            /\ op.keyword_match.target_category # NoCategory)

\* the calls that returned for this number, as positions of calls
ReturnedCalls(number) ==
    {i \in 1..Len(calls) :
        /\ calls[i].outcome = "returned"
        /\ format_number(calls[i].op.contact_number) = number}

FullOptOutCalls(number) == {i \in ReturnedCalls(number) : IsFullOptOut(calls[i].op)}

LastReturned(number) ==
    CHOOSE i \in ReturnedCalls(number) : \A j \in ReturnedCalls(number) : j <= i

Numbers == {N1, N2}

\* C13: between calls, a Profile whose latest call was a full opt-out has
\* is_opted_out = 1, is_opted_in = 0 and consent_status "Opted Out", whether
\* or not it was opted out before, and the consent log holds exactly one
\* Opt-Out entry per full opt-out call made for that Profile: n calls leave
\* n entries.
C13_RerunOptOut ==
    consentTxn.pc = "idle" =>
        \A number \in Numbers :
            /\ Cardinality(OptOutEntries(number))
                  = Cardinality(FullOptOutCalls(number))
            /\ (ReturnedCalls(number) # {}
                   /\ LastReturned(number) \in FullOptOutCalls(number))
                => LET p == profiles[FirstProfile(number)]
                   IN /\ p.is_opted_out
                      /\ ~p.is_opted_in
                      /\ p.consent_status = "Opted Out"

\* two full opt-outs in a row for one Profile: the second ran on an opted-out
\* Profile and the log holds two Opt-Out entries
C13_Witness ==
    /\ consentTxn.pc = "idle"
    /\ Len(calls) = 2
    /\ FullOptOutCalls(N1) = {1, 2}
    /\ Cardinality(OptOutEntries(N1)) = 2
    /\ consent_log[2].previous_status
    /\ profiles[FirstProfile(N1)].is_opted_out

----------------------------------------------------------------------------
(* Opt-in and opt-out exclude each other *)

\* C14: starting from Profiles that are absent or newly created, no sequence
\* of process_opt_out calls (full or for a category) and process_opt_in
\* calls, including ones cut short by an exception, leaves any Profile with
\* is_opted_in and is_opted_out both set, in the rows the running call sees
\* and in the committed rows.
C14_NeverBoth ==
    /\ \A i \in 1..Len(profiles) :
          ~(profiles[i].is_opted_in /\ profiles[i].is_opted_out)
    /\ \A i \in 1..Len(committed.profiles) :
          ~(committed.profiles[i].is_opted_in /\ committed.profiles[i].is_opted_out)

\* a Profile was opted out, then opted in, then opted out of its last
\* consenting category, which opts it out as a whole
C14_Witness ==
    /\ consentTxn.pc = "idle"
    /\ Len(calls) = 3
    /\ \A i \in 1..3 : /\ calls[i].outcome = "returned"
                        /\ calls[i].op.contact_number = PlusN1
    /\ IsFullOptOut(calls[1].op)
    /\ calls[2].op.kind = "opt_in"
    /\ calls[3].op.keyword_match = CategoryRule("promo")
    /\ profiles[FirstProfile(N1)].is_opted_out
    /\ ~profiles[FirstProfile(N1)].is_opted_in
    /\ consent_log[1].profile = FirstProfile(N1)

----------------------------------------------------------------------------
(* The consent log is append-only *)

LogPrefix(before, after) ==
    /\ Len(before) <= Len(after)
    /\ \A i \in 1..Len(before) : after[i] = before[i]

\* the step ends a call that returned
CallReturns ==
    /\ Len(calls') = Len(calls) + 1
    /\ calls'[Len(calls')].outcome = "returned"

\* C15: no step modifies or removes an entry of the consent log, and a call
\* of process_opt_out (full or category) or process_opt_in that returns has
\* added exactly one entry to the log as it was when the call began, and that
\* entry names the Profile of the number the call was made for.
C15_LogAppendOnly ==
    [][/\ LogPrefix(consent_log, consent_log')
       /\ CallReturns =>
            LET op == calls'[Len(calls')].op
                entry == consent_log'[Len(consent_log')]
            IN /\ Len(consent_log') = Len(committed.consent_log) + 1
               /\ entry.profile = FirstProfile(format_number(op.contact_number))
               /\ entry.phone_number = format_number(op.contact_number)
               /\ entry.action = IF op.kind = "opt_in" THEN "Opt-In"
                                 ELSE IF IsFullOptOut(op) THEN "Opt-Out"
                                 ELSE "Category Opt-Out"]_vars

\* three calls of three kinds returned and the log holds their three
\* entries in call order
C15_Witness ==
    /\ consentTxn.pc = "idle"
    /\ Len(calls) = 3
    /\ Len(consent_log) = 3
    /\ consent_log[1].action = "Category Opt-Out"
    /\ consent_log[2].action = "Opt-In"
    /\ consent_log[3].action = "Opt-Out"
    /\ consent_log[1].profile = consent_log[3].profile

----------------------------------------------------------------------------
(* Profile change and audit entry are observed together *)

\* the consent fields a reader finds for a number in the rows it is given;
\* a number without a Profile reads as a new Profile does
ConsentOf(rows, number) ==
    LET found == {i \in 1..Len(rows) : rows[i].number = number}
    IN IF found = {}
       THEN ConsentFields(NewProfile(number))
       ELSE ConsentFields(rows[CHOOSE i \in found : \A j \in found : i <= j])

\* the step ends a call with the exception of the audit insert
CallRaises ==
    /\ Len(calls') = Len(calls) + 1
    /\ calls'[Len(calls')].outcome = "raised"

----------------------------------------------------------------------------
(* Status webhooks: update_status, update_message_status (utils/webhook.py) *)

TrackedId1 == <<"out", 1>>
TrackedId2 == <<"out", 2>>
UnknownId == <<"out", 9>>

StatusEntry(id, status, conversation) ==
    [id |-> id, status |-> status, conversation |-> conversation]

\* the statuses list of a change: none, one entry, or two
StatusLists ==
    LET entries == {StatusEntry(id, status, conversation) :
                        id \in {TrackedId1, TrackedId2, UnknownId},
                        status \in {"delivered", "read"},
                        conversation \in {"", "conv"}}
    IN {<<>>} \cup {<<e>> : e \in entries}
              \cup {<<e, StatusEntry(TrackedId2, "failed", "")>> : e \in entries}

\* frappe.db.get_value("WhatsApp Message", filters={"message_id": id})
MessageNamed(id) ==
    IF StoredWithId(id) = {} THEN 0
    ELSE CHOOSE i \in StoredWithId(id) : \A j \in StoredWithId(id) : i <= j

\* Mutant: a status for an unknown id is recorded as a new Message.
update_message_status_track_unknown(statuses) ==
    LET first == statuses[1]
        name == MessageNamed(first.id)
    IN IF name = 0
       THEN Append(messages, MkMessage("Outgoing", <<>>, <<>>, first.id, "text",
                                       "Manual", "A", NoApp, NoApp, first.status))
       ELSE [messages EXCEPT ![name].status = first.status]

\* Mutant: the last entry of the statuses list is applied.
update_message_status_last(statuses) ==
    LET first == statuses[Len(statuses)]
        name == MessageNamed(first.id)
    IN IF name = 0 THEN messages
       ELSE [messages EXCEPT
               ![name].status = first.status,
               ![name].conversation_id =
                   IF first.conversation # "" THEN first.conversation ELSE @]

\* update_message_status, for a non-empty statuses list: the messages after
update_message_status(statuses) ==
    LET first == statuses[1]
        name == MessageNamed(first.id)
    IN IF name = 0 THEN messages
       ELSE [messages EXCEPT
               ![name].status = first.status,
               ![name].conversation_id =
                   IF first.conversation # "" THEN first.conversation ELSE @]

\* a webhook without messages reaches update_status with its first change
StatusWebhook ==
    \E field \in {"messages", "account_update"}, statuses \in StatusLists :
        LET raises == field = "messages" /\ statuses = <<>>
        IN
        /\ messages' = IF field = "messages" /\ ~raises
                       THEN update_message_status(statuses)
                       ELSE messages
        /\ statusCall' = [field |-> field, statuses |-> statuses,
                          raised |-> raises]
        /\ UNCHANGED <<settings, templates, profiles, routes, now, ticks, task,
                       payload, deliveries, completed, jobs, consentCall,
                       windowCall, lastSend, consentVars, notification_log,
                       lastHttp, accounts, routeCalls, routeRead, extraVars>>

InitStatus ==
    /\ settings = QuietSettings
    /\ templates = TemplateStore
    /\ now = 0
    /\ ticks = 0
    /\ messages = <<MkMessage("Outgoing", <<>>, N1, TrackedId1, "text",
                              "Manual", "A", NoApp, "B", "Success"),
                    MkMessage("Incoming", N1, <<>>, EarlierId, "text",
                              "Manual", "A", "B", NoApp, ""),
                    MkMessage("Outgoing", <<>>, N2, TrackedId2, "text",
                              "Manual", "A", NoApp, NoApp, "Success")>>
    /\ profiles = <<NewProfile(N1), NewProfile(N2)>>
    /\ routes = [k \in {RouteKey(N1, "A")} |-> "B"]
    /\ QuietWebhook
    /\ QuietCalls
    /\ QuietSend
    /\ QuietConsentOps
    /\ notification_log = <<>>
    /\ lastHttp = NoRequest
    /\ statusCall = NoCall
    /\ accounts = <<>>
    /\ routeCalls = <<>>
    /\ routeRead = NoCall
    /\ QuietExtra

NextStatus == StatusWebhook

SpecStatus == InitStatus /\ [][NextStatus]_vars

\* the step handles a status event whose first entry names no stored Message
UnknownStatusStep ==
    /\ statusCall' # statusCall \/ messages' # messages
    /\ statusCall'.field = "messages"
    /\ statusCall'.statuses # <<>>
    /\ StoredWithId(statusCall'.statuses[1].id) = {}

\* C17: a step that handles a delivery-status event whose provider message
\* id matches no stored Message leaves Messages, Profiles, Routes, the
\* consent log and the job queue as they were, and ends without an error.
C17_UnknownStatusIgnored ==
    [][UnknownStatusStep =>
          /\ messages' = messages
          /\ profiles' = profiles
          /\ routes' = routes
          /\ consent_log' = consent_log
          /\ jobs' = jobs
          /\ ~statusCall'.raised]_vars

\* an unknown id was handled after a tracked Message had been updated
C17_Witness ==
    /\ statusCall # NoCall
    /\ statusCall.field = "messages"
    /\ statusCall.statuses # <<>>
    /\ statusCall.statuses[1].id = UnknownId
    /\ ~statusCall.raised
    /\ Len(messages) = 3
    /\ messages[1].status = "read"
    /\ messages[3].status = "Success"

----------------------------------------------------------------------------
(* The webhook endpoint: webhook, get, post (utils/webhook.py) *)

MkAccount(name, webhook_verify_token) ==
    [name |-> name, webhook_verify_token |-> webhook_verify_token]

\* an unset Data field reads as empty
Tokens == {"", "t1", "t2"}

\* what the provider, or anyone else, presents: hub.verify_token may be
\* absent, empty, a configured token or another one
GetRequests ==
    {[method |-> "GET", has_token |-> h, verify_token |-> t, challenge |-> c] :
        h \in BOOLEAN, t \in Tokens \cup {"t3"}, c \in {"c1", "c2"}}
    \ {r \in [method : {"GET"}, has_token : {FALSE},
                verify_token : {"t1", "t2", "t3"}, challenge : {"c1", "c2"}] : TRUE}

PostBodies == {"b1", "b2"}

Response(body, status) == [body |-> body, status |-> status]

\* frappe.throw: the request ends with the error response
Throw(message) == [body |-> message, status |-> 417]

\* the rows frappe.db.get_value's filter selects; an absent token filters
\* for an unset field
AccountsWithToken(request) ==
    {i \in 1..Len(accounts) :
        accounts[i].webhook_verify_token =
            (IF request.has_token THEN request.verify_token ELSE "")}

\* Mutant: an account whose token is unset verifies an empty or absent token.
get_accepts_empty(request) ==
    IF AccountsWithToken(request) = {}
    THEN {Throw("No matching WhatsApp account")}
    ELSE {Response(request.challenge, 200)}

\* get(): the responses it can give
get(request) ==
    IF AccountsWithToken(request) = {}
    THEN {Throw("No matching WhatsApp account")}
    ELSE {IF accounts[i].webhook_verify_token = ""
          THEN Throw("No matching WhatsApp account")
          ELSE IF ~request.has_token
                    \/ request.verify_token # accounts[i].webhook_verify_token
          THEN Throw("Verify token does not match")
          ELSE Response(request.challenge, 200) : i \in AccountsWithToken(request)}

Get ==
    \E request \in GetRequests : \E response \in get(request) :
        /\ lastHttp' = [request |-> request, response |-> response]
        /\ UNCHANGED <<settings, templates, profiles, messages, routes, now,
                       ticks, task, payload, deliveries, completed, jobs,
                       consentCall, windowCall, lastSend, consentVars,
                       notification_log, statusCall, accounts, routeCalls,
                       routeRead, extraVars>>

\* Mutant: a failed diagnostic write ends the request.
post_aborts_on_log_failure(data, insert_fails) ==
    IF insert_fails
    THEN [notification_log |-> notification_log, jobs |-> jobs,
          response |-> Response("error", 500)]
    ELSE [notification_log |-> Append(notification_log, data),
          jobs |-> Append(jobs, Job("process_webhook_payload", data)),
          response |-> Response("ok", 200)]

\* post(): the diagnostic write, the enqueue, the response
post(data, insert_fails) ==
    [notification_log |-> IF insert_fails THEN notification_log
                          ELSE Append(notification_log, data),
     jobs |-> Append(jobs, Job("process_webhook_payload", data)),
     response |-> Response("ok", 200)]

Post ==
    \E data \in PostBodies, insert_fails \in BOOLEAN :
        LET run == post(data, insert_fails) IN
        /\ Len(jobs) < MaxPosts
        /\ notification_log' = run.notification_log
        /\ jobs' = run.jobs
        /\ lastHttp' = [request |-> [method |-> "POST", data |-> data,
                                     insert_fails |-> insert_fails],
                        response |-> run.response]
        /\ UNCHANGED <<settings, templates, profiles, messages, routes, now,
                       ticks, task, payload, deliveries, completed,
                       consentCall, windowCall, lastSend, consentVars,
                       statusCall, accounts, routeCalls, routeRead, extraVars>>

InitHttp ==
    /\ settings = QuietSettings
    /\ templates = TemplateStore
    /\ now = 0
    /\ ticks = 0
    /\ messages = <<MkMessage("Incoming", N1, <<>>, EarlierId, "text",
                              "Manual", "A", NoApp, NoApp, "")>>
    /\ profiles = <<NewProfile(N1)>>
    /\ routes = [k \in {RouteKey(N1, "A")} |-> "B"]
    /\ QuietWebhook
    /\ QuietCalls
    /\ QuietSend
    /\ QuietConsentOps
    /\ notification_log = <<>>
    /\ lastHttp = NoRequest
    /\ statusCall = NoCall
    /\ routeCalls = <<>>
    /\ routeRead = NoCall
    /\ QuietExtra
    /\ accounts \in {<<>>} \cup {<<MkAccount("A", t)>> : t \in Tokens}
                         \cup {<<MkAccount("A", t), MkAccount("B", u)>> :
                                   t \in Tokens, u \in Tokens}

NextHttp == Get \/ Post

SpecHttp == InitHttp /\ [][NextHttp]_vars

\* the step handles a webhook POST
PostStep ==
    /\ <<lastHttp, jobs, notification_log>>' # <<lastHttp, jobs, notification_log>>
    /\ lastHttp'.request.method = "POST"

\* C18: every webhook POST submits its payload to the job queue exactly once
\* and is answered 200 "ok", also when the diagnostic copy cannot be written;
\* the handler writes at most that one diagnostic row and leaves Messages,
\* Profiles and Routes as they were.
C18_PostEnqueuesOnce ==
    [][PostStep =>
          /\ jobs' = Append(jobs, Job("process_webhook_payload",
                                      lastHttp'.request.data))
          /\ lastHttp'.response = Response("ok", 200)
          /\ \/ notification_log' = notification_log
             \/ notification_log'
                   = Append(notification_log, lastHttp'.request.data)
          /\ messages' = messages
          /\ profiles' = profiles
          /\ routes' = routes
          /\ consent_log' = consent_log]_vars

\* two POSTs were answered, the diagnostic write of the second one failed
C18_Witness ==
    /\ lastHttp # NoRequest
    /\ lastHttp.request.method = "POST"
    /\ lastHttp.request.insert_fails
    /\ lastHttp.response = Response("ok", 200)
    /\ Len(notification_log) = 1
    /\ Len(jobs) = 2
    /\ jobs[2] = Job("process_webhook_payload", lastHttp.request.data)

\* the presented token is the verify token some account is configured with
TokenConfigured(request) ==
    /\ request.has_token
    /\ request.verify_token # ""
    /\ \E i \in 1..Len(accounts) :
          accounts[i].webhook_verify_token = request.verify_token

\* C19: a GET verification request is answered 200 with the challenge it
\* carried exactly when its hub.verify_token is the webhook verify token of
\* a configured account; every other request, among them one whose token is
\* absent or empty, is answered with an error that does not carry the
\* challenge.
C19_VerifyIffTokenMatches ==
    (lastHttp # NoRequest /\ lastHttp.request.method = "GET") =>
        IF TokenConfigured(lastHttp.request)
        THEN lastHttp.response = Response(lastHttp.request.challenge, 200)
        ELSE /\ lastHttp.response.status # 200
             /\ lastHttp.response.body # lastHttp.request.challenge

\* the token of the second of two accounts was presented and accepted
C19_Witness ==
    /\ lastHttp # NoRequest
    /\ lastHttp.request.method = "GET"
    /\ Len(accounts) = 2
    /\ accounts[1].webhook_verify_token = "t1"
    /\ lastHttp.request.has_token
    /\ lastHttp.request.verify_token = "t2"
    /\ lastHttp.response = Response("c2", 200)

----------------------------------------------------------------------------
(* Specification of the Conversation Router: set_last_sender_app and       *)
(* get_last_sender_app called in any order                                 *)

DashedNumber == <<"1", "-", "2">>

RouteCall(whatsapp_account, to_number, source_app) ==
    [whatsapp_account |-> whatsapp_account, to_number |-> to_number,
     source_app |-> source_app]

\* calls with all three arguments, and calls that lack one of them
RouteCalls ==
    {RouteCall(a, n, app) : a \in {"A", DashedAccount},
                            n \in {PlusN1, N1, DashedNumber},
                            app \in {"app1", "app2"}}
    \cup {RouteCall(NoAccount, N1, "app2"), RouteCall("A", Empty, "app2"),
          RouteCall("A", N1, NoApp)}

SetLastSenderApp ==
    \E call \in RouteCalls :
        /\ Len(routeCalls) < MaxRouteCalls
        /\ routes' = set_last_sender_app(call.whatsapp_account, call.to_number,
                                         call.source_app)
        /\ routeCalls' = Append(routeCalls, call)
        /\ UNCHANGED <<settings, templates, profiles, messages, now, ticks,
                       task, payload, deliveries, completed, jobs, consentCall,
                       windowCall, lastSend, consentVars, notification_log,
                       lastHttp, statusCall, accounts, routeRead, extraVars>>

GetLastSenderApp ==
    \E a \in {NoAccount, "A", DashedAccount}, n \in {Empty, PlusN1, DashedNumber} :
        /\ routeRead' = [called |-> TRUE, whatsapp_account |-> a,
                         contact_number |-> n,
                         result |-> get_last_sender_app(a, n)]
        /\ UNCHANGED <<settings, templates, profiles, messages, routes, now,
                       ticks, task, payload, deliveries, completed, jobs,
                       consentCall, windowCall, lastSend, consentVars,
                       notification_log, lastHttp, statusCall, accounts,
                       routeCalls, extraVars>>

InitRoute ==
    /\ settings = QuietSettings
    /\ templates = TemplateStore
    /\ now = 0
    /\ ticks = 0
    /\ messages = <<>>
    /\ profiles = <<>>
    /\ routes = NoRoutes
    /\ QuietWebhook
    /\ QuietCalls
    /\ QuietSend
    /\ QuietConsentOps
    /\ QuietHttp

NextRoute == SetLastSenderApp \/ GetLastSenderApp

SpecRoute == InitRoute /\ [][NextRoute]_vars

\* the calls that had all three arguments and named this account and number
CallsFor(whatsapp_account, contact_number) ==
    {i \in 1..Len(routeCalls) :
        /\ routeCalls[i].whatsapp_account = whatsapp_account
        /\ routeCalls[i].whatsapp_account # NoAccount
        /\ format_number(routeCalls[i].to_number) = format_number(contact_number)
        /\ format_number(routeCalls[i].to_number) # Empty
        /\ routeCalls[i].source_app # NoApp}

LatestSourceApp(whatsapp_account, contact_number) ==
    LET made == CallsFor(whatsapp_account, contact_number)
    IN IF made = {} THEN NoApp
       ELSE routeCalls[CHOOSE i \in made : \A j \in made : j <= i].source_app

\* C20 as stated: every get_last_sender_app(account, number) returns the
\* source app of the latest set_last_sender_app call made so far that had
\* all three arguments and named that account and that normalized number,
\* and none when there was no such call; calls lacking an argument and calls
\* for another (account, number) do not change what it returns.
C20_LatestCallWins ==
    [][routeRead' # routeRead =>
          routeRead'.result = LatestSourceApp(routeRead'.whatsapp_account,
                                              routeRead'.contact_number)]_vars

----------------------------------------------------------------------------
(* Specification of concurrent set_last_sender_app calls: the existence    *)
(* check and the write are separate steps of each worker                   *)

RaceCalls ==
    {RouteCall("A", n, app) : n \in {PlusN1, N1, N2}, app \in {"app1", "app2"}}
    \cup {RouteCall("A", N1, NoApp)}

\* the name is the primary key of the route table: a second row of that
\* name is refused
RouteNameTaken(call) ==
    RouteKey(format_number(call.to_number), call.whatsapp_account) \in DOMAIN routes

\* lines 14-23: presence check, then frappe.db.exists
RouteCheck(w) ==
    \E call \in RaceCalls :
        /\ routeTask[w].pc \in {"idle", "done", "raised"}
        /\ routeTask[w].n < MaxRouteCalls
        /\ routeTask' = [routeTask EXCEPT ![w] =
              [pc |-> IF call.source_app = NoApp THEN "done" ELSE "checked",
               n |-> routeTask[w].n + 1,
               call |-> call,
               existing |-> RouteNameTaken(call)]]
        /\ UNCHANGED <<settings, templates, profiles, messages, routes, now,
                       ticks, task, payload, deliveries, completed, jobs,
                       consentCall, windowCall, lastSend, consentVars,
                       notification_log, lastHttp, statusCall, accounts,
                       routeCalls, routeRead, client_apps, forwardCall,
                       downloadCall, template_rows, payloadCall,
                       transmitCall,
                       adminVars>>

\* lines 31-43: set_value on the row found, or insert of a new row, which
\* raises when a row of that name has appeared since the check
RouteWrite(w) ==
    LET call == routeTask[w].call
        refused == ~routeTask[w].existing /\ RouteNameTaken(call)
    IN
    /\ routeTask[w].pc = "checked"
    /\ routes' = IF refused THEN routes
                 ELSE set_last_sender_app(call.whatsapp_account,
                                          call.to_number, call.source_app)
    /\ routeTask' = [routeTask EXCEPT ![w].pc =
                         IF refused THEN "raised" ELSE "done"]
    /\ UNCHANGED <<settings, templates, profiles, messages, now, ticks, task,
                   payload, deliveries, completed, jobs, consentCall,
                   windowCall, lastSend, consentVars, notification_log,
                   lastHttp, statusCall, accounts, routeCalls, routeRead,
                   client_apps, forwardCall, downloadCall, template_rows, payloadCall,
                       transmitCall,
                       adminVars>>

NextRouteRace == \E w \in Workers : RouteCheck(w) \/ RouteWrite(w)

SpecRouteRace == InitRoute /\ [][NextRouteRace]_vars

\* C21 as stated: whatever the interleaving of set_last_sender_app calls,
\* no call ends with an error, and once two calls for one key have both
\* ended the single route of that key holds the source app of one of them.
C21_RaceBothComplete ==
    /\ \A w \in Workers : routeTask[w].pc # "raised"
    /\ \A w \in Workers, v \in Workers :
          (w # v /\ routeTask[w].pc = "done" /\ routeTask[v].pc = "done"
             /\ routeTask[w].call.source_app # NoApp
             /\ routeTask[v].call.source_app # NoApp
             /\ format_number(routeTask[w].call.to_number)
                   = format_number(routeTask[v].call.to_number))
          => routes[RouteKey(format_number(routeTask[w].call.to_number), "A")]
                \in {routeTask[w].call.source_app, routeTask[v].call.source_app}

----------------------------------------------------------------------------
(* Specification of routed inbound messages: tagged outgoing sends and     *)
(* inbound messages, each handled from first line to last                  *)

RoutedDocs ==
    [to : {PlusN1, N2, DashedNumber},
     message_type : {"Manual"},
     template : {NoTemplate},
     message_id : {NoId},
     source_app : {NoApp, "app1", "app2"},
     whatsapp_account : {"A", DashedAccount}]

SendTagged ==
    \E doc \in RoutedDocs, provider \in {"accepted", "error"} :
        /\ Len(messages) < MaxRoutedMsgs
        /\ InsertOutgoingDoc(doc, provider)
        /\ UNCHANGED <<consentVars, httpVars>>
        /\ UNCHANGED <<settings, templates, now, ticks, task, payload,
                       deliveries, completed, jobs, consentCall, windowCall>>

ReceiveRouted ==
    \E from \in {N1, N2}, whatsapp_account \in {"A", DashedAccount} :
        LET message == [present |-> TRUE, from |-> from,
                        id |-> <<"wamid", Len(messages) + 10>>,
                        type |-> "text", text |-> Hello,
                        interactive_type |-> "", media_id |-> FALSE] IN
        /\ Len(messages) < MaxRoutedMsgs
        /\ ~MessageExists(message.id)
        /\ InsertIncoming(message, whatsapp_account,
                          get_last_sender_app(whatsapp_account, from))
        /\ lastSend' = NoSend
        /\ UNCHANGED <<consentVars, httpVars>>
        /\ UNCHANGED <<settings, templates, routes, now, ticks, task, payload,
                       deliveries, completed, consentCall, windowCall>>

InitRouted ==
    /\ settings \in {MkSettings("Strict", e, FALSE, FALSE, 0, FALSE, TRUE, <<>>) :
                         e \in BOOLEAN}
    /\ templates = TemplateStore
    /\ now = 0
    /\ ticks = 0
    /\ messages = <<>>
    /\ profiles = <<MkProfile(N1, FALSE, FALSE, TRUE,
                              [c \in Categories |-> "absent"])>>
    /\ routes = NoRoutes
    /\ QuietWebhook
    /\ QuietCalls
    /\ QuietSend
    /\ QuietConsentOps
    /\ QuietHttp

NextRouted == SendTagged \/ ReceiveRouted

SpecRouted == InitRouted /\ [][NextRouted]_vars

\* the stored Outgoing messages that carry a source app and were sent to
\* this contact on this account, as positions of messages
TaggedFor(rows, whatsapp_account, contact) ==
    {j \in 1..Len(rows) :
        /\ rows[j].type = "Outgoing"
        /\ rows[j].source_app # NoApp
        /\ rows[j].whatsapp_account = whatsapp_account
        /\ format_number(rows[j].to) = contact}

LatestTaggedApp(rows, whatsapp_account, contact) ==
    LET sent == TaggedFor(rows, whatsapp_account, contact)
    IN IF sent = {} THEN NoApp
       ELSE rows[CHOOSE j \in sent : \A k \in sent : k <= j].source_app

\* C22 as stated: the routed_app of an inbound message that is stored is
\* the source app of the latest stored Outgoing message that carries a
\* source app for the same account and contact, none when there is no such
\* message; and a step that stores an inbound message, or a send that was
\* blocked or failed, leaves the routes as they were.
C22_RoutedToLatestSender ==
    [][/\ (Len(messages') = Len(messages) + 1
            /\ messages'[Len(messages')].type = "Incoming")
          => /\ messages'[Len(messages')].routed_app
                  = LatestTaggedApp(messages,
                                    messages'[Len(messages')].whatsapp_account,
                                    messages'[Len(messages')].from)
             /\ routes' = routes
       /\ (lastSend'.sent /\ lastSend'.outcome # "inserted")
          => routes' = routes]_vars

----------------------------------------------------------------------------
(* Forwarding of inbound messages to the routed client application         *)

MkClientApp(enabled, inbound_webhook_url) ==
    [enabled |-> enabled, inbound_webhook_url |-> inbound_webhook_url]

ClientAppNames == {"app1", "app2"}

\* Mutant: a disabled application is posted to as well.
forward_incoming_to_app_ignores_enabled(incoming_message_doc, delivery) ==
    IF incoming_message_doc.routed_app = NoApp
    THEN [posted |-> FALSE, raised |-> FALSE]
    ELSE IF client_apps[incoming_message_doc.routed_app].inbound_webhook_url = ""
    THEN [posted |-> FALSE, raised |-> FALSE]
    ELSE [posted |-> TRUE, raised |-> delivery = "fails"]

\* forward_incoming_to_app: whether the envelope is posted to the inbound
\* URL, and whether the call ends with the exception of a failed post
forward_incoming_to_app(incoming_message_doc, delivery) ==
    IF incoming_message_doc.routed_app = NoApp
    THEN [posted |-> FALSE, raised |-> FALSE]
    ELSE LET app == client_apps[incoming_message_doc.routed_app] IN
         IF ~app.enabled \/ app.inbound_webhook_url = ""
         THEN [posted |-> FALSE, raised |-> FALSE]
         ELSE [posted |-> TRUE, raised |-> delivery = "fails"]

\* forward_incoming_to_app_async, as run by the job queue: the Message is
\* loaded and forwarded; a failure of the delivery is logged and not raised
ForwardJob ==
    \E j \in 1..Len(jobs), delivery \in {"ok", "fails"} :
        LET run == forward_incoming_to_app(messages[jobs[j].message], delivery)
            n == IF forwardCall = NoCall THEN 0 ELSE forwardCall.n
        IN
        /\ jobs[j].job = "forward"
        /\ n < MaxForwards
        /\ forwardCall' = [called |-> TRUE,
                           message |-> jobs[j].message,
                           delivery |-> delivery,
                           posted |-> run.posted,
                           logged |-> run.raised,
                           raised |-> FALSE,
                           n |-> n + 1]
        /\ UNCHANGED <<settings, templates, profiles, messages, routes, now,
                       ticks, task, payload, deliveries, completed, jobs,
                       consentCall, windowCall, lastSend, consentVars,
                       notification_log, lastHttp, statusCall, accounts,
                       routeCalls, routeRead, routeTask, client_apps,
                       downloadCall, template_rows, payloadCall,
                       transmitCall,
                       adminVars>>

InitForward ==
    /\ settings = QuietSettings
    /\ templates = TemplateStore
    /\ now = 0
    /\ ticks = 0
    /\ messages = <<MkMessage("Incoming", N1, <<>>, <<"wamid", 1>>, "text",
                              "Manual", "A", NoApp, NoApp, ""),
                    MkMessage("Incoming", N1, <<>>, <<"wamid", 2>>, "text",
                              "Manual", "A", "app1", NoApp, ""),
                    MkMessage("Incoming", N2, <<>>, <<"wamid", 3>>, "image",
                              "Manual", "A", "app2", NoApp, "")>>
    /\ profiles = <<NewProfile(N1), NewProfile(N2)>>
    /\ routes = [k \in {RouteKey(N1, "A")} |-> "app1"]
    /\ task = [w \in Workers |-> IdleTask]
    /\ payload = NoPayload
    /\ deliveries = 0
    /\ completed = 0
    /\ jobs = <<Job("forward", 1), Job("forward", 2), Job("forward", 3)>>
    /\ QuietCalls
    /\ QuietSend
    /\ QuietConsentOps
    /\ notification_log = <<>>
    /\ lastHttp = NoRequest
    /\ statusCall = NoCall
    /\ accounts = <<>>
    /\ routeCalls = <<>>
    /\ routeRead = NoCall
    /\ routeTask = [w \in Workers |-> IdleRouteTask]
    /\ forwardCall = NoCall
    /\ downloadCall = NoCall
    /\ template_rows = TemplateRows
    /\ payloadCall = NoCall
    /\ transmitCall = NoCall
    /\ QuietAdmin
    /\ client_apps \in [ClientAppNames ->
                           {MkClientApp(e, u) : e \in BOOLEAN, u \in {"", "url"}}]

NextForward == ForwardJob

SpecForward == InitForward /\ [][NextForward]_vars

----------------------------------------------------------------------------
(* Every inbound content kind is stored and forwarded *)

ForwardsOf(name) == {j \in 1..Len(jobs) : jobs[j] = Job("forward", name)}

\* C24 as stated: once an inbound message that has a sender number and a
\* provider message id not stored before has been processed, exactly one
\* Incoming Message carries that id and exactly one forward was submitted
\* for it, whatever the content kind.
C24_EveryKindStoredOnce ==
    (payload.from # <<>> /\ payload.id # NoId /\ completed = 1)
        => /\ Cardinality(StoredWithId(payload.id)) = 1
           /\ \A i \in StoredWithId(payload.id) :
                 /\ messages[i].type = "Incoming"
                 /\ Cardinality(ForwardsOf(i)) = 1

----------------------------------------------------------------------------
(* Media download: download_and_attach_media (utils/webhook.py) *)

\* how a run ends: both requests succeed, or one of them raises
DownloadOutcomes == {"ok", "metadata_fails", "content_fails"}

\* Mutant: a failed download marks the stub as failed.
download_and_attach_media_marks_failure(message_docname, outcome) ==
    IF outcome = "ok"
    THEN [messages EXCEPT ![message_docname].attach = "file_url"]
    ELSE [messages EXCEPT ![message_docname].status = "Failed"]

\* download_and_attach_media: the messages after the run.  Both requests
\* precede the File save and the set_value of attach.
download_and_attach_media(message_docname, outcome) ==
    IF outcome = "ok"
    THEN [messages EXCEPT ![message_docname].attach = "file_url"]
    ELSE messages

\* the job queue runs an enqueued download, possibly more than once
DownloadJob ==
    \E j \in 1..Len(jobs), outcome \in DownloadOutcomes :
        LET n == IF downloadCall = NoCall THEN 0 ELSE downloadCall.n IN
        /\ jobs[j].job = "download_and_attach_media"
        /\ n < MaxDownloads
        /\ messages' = download_and_attach_media(jobs[j].message, outcome)
        /\ downloadCall' = [called |-> TRUE, message |-> jobs[j].message,
                            outcome |-> outcome, n |-> n + 1]
        /\ UNCHANGED <<settings, templates, profiles, routes, now, ticks, task,
                       payload, deliveries, completed, jobs, consentCall,
                       windowCall, lastSend, consentVars, notification_log,
                       lastHttp, statusCall, accounts, routeCalls, routeRead,
                       routeTask, client_apps, forwardCall, template_rows,
                       payloadCall, transmitCall,
                       adminVars>>

NextMedia == Start("w1") \/ Dedupe("w1") \/ Insert("w1") \/ DownloadJob

SpecMedia == InitWebhook /\ [][NextMedia]_vars

\* the stub of a download job exists, is a media Message, and its forward
\* was submitted before the download was enqueued
StubForwardedFirst(rows, queue) ==
    \A j \in 1..Len(queue) :
        queue[j].job = "download_and_attach_media"
        => /\ queue[j].message \in 1..Len(rows)
           /\ rows[queue[j].message].content_type \in MediaTypes
           /\ \E k \in 1..(j - 1) : queue[k] = Job("forward", queue[j].message)

\* C25: every enqueued media download has its stub Message stored and the
\* stub's forward submitted ahead of it; no step removes a Message; and a
\* step changes a stored Message only by setting its attachment in a
\* download run that succeeded for that Message, so a failed or never-run
\* download leaves the stub as it was.
C25_StubOutlivesDownload ==
    [][/\ StubForwardedFirst(messages', jobs')
       /\ Len(messages') >= Len(messages)
       /\ \A i \in 1..Len(messages) :
             \/ messages'[i] = messages[i]
             \/ /\ downloadCall'.called
                /\ downloadCall' # downloadCall
                /\ downloadCall'.message = i
                /\ downloadCall'.outcome = "ok"
                /\ messages'[i] = [messages[i] EXCEPT !.attach = "file_url"]]_vars

\* after a download that attached the file, a second run for the same stub
\* failed and the stub still carries the attachment
C25_Witness ==
    /\ downloadCall # NoCall
    /\ downloadCall.n = 2
    /\ downloadCall.outcome = "content_fails"
    /\ messages[downloadCall.message].content_type = "image"
    /\ messages[downloadCall.message].attach = "file_url"
    /\ Cardinality(ForwardsOf(downloadCall.message)) = 1

----------------------------------------------------------------------------
(* The background task: process_webhook_payload, update_status             *)
(* (utils/webhook.py)                                                      *)

\* the phone_number_id configured on each WhatsApp Account
PhoneIdOf == [a \in {"A"} |-> "P1"]

\* get_whatsapp_account(phone_id): the account with that phone id
get_whatsapp_account(phone_id) ==
    IF \E a \in DOMAIN PhoneIdOf : PhoneIdOf[a] = phone_id
    THEN CHOOSE a \in DOMAIN PhoneIdOf : PhoneIdOf[a] = phone_id
    ELSE NoAccount

\* the shapes of the decoded body: entry as a list of entries, entry as one
\* object, a mapping without entry (also what an undecodable string becomes),
\* an entry without changes, a change without value, and a body that is
\* not a mapping (a JSON array)
ShapesWithValue == {"entry_list", "entry_object"}
OtherShapes == {"no_entry", "no_changes", "no_value", "not_mapping"}

MkData(shape, phone_number_id, field, msgs, statuses, event, message_template_id) ==
    [shape |-> shape,
     phone_number_id |-> phone_number_id,
     field |-> field,
     messages |-> msgs,
     statuses |-> statuses,
     event |-> event,
     message_template_id |-> message_template_id]

\* inbound messages a payload carries (one per payload)
PayloadMessages ==
    {m \in Payloads : /\ m.from = N1
                      /\ m.id = <<"wamid", 1>>
                      /\ m.type \in {"text", "image", "sticker"}
                      /\ m.text \in {Hello, <<>>}
                      /\ m.type = "image" => m.media_id}

\* value.statuses of a delivery-status change; <<>> when the key is absent
PayloadStatuses ==
    {<<>>}
    \cup {<<StatusEntry(id, status, "")>> :
              id \in {TrackedId1, UnknownId},
              status \in {"sent", "delivered", "read", "failed"}}
    \cup {<<StatusEntry(TrackedId1, "read", "conv"),
            StatusEntry(TrackedId2, "failed", "")>>}

\* the first change of a payload whose value is present
WebhookChanges ==
    {MkData("entry_list", "", "messages", <<m>>, <<>>, "", "") :
        m \in PayloadMessages}
    \cup {MkData("entry_list", "", "messages", <<>>, statuses, "", "") :
              statuses \in PayloadStatuses}
    \cup {MkData("entry_list", "", "message_template_status_update", <<>>,
                 <<>>, event, id) :
              event \in {"APPROVED", "REJECTED"}, id \in {"T1", "T9"}}
    \cup {MkData("entry_list", "", "account_update", <<>>, <<>>, "", "")}

\* the bodies the endpoint receives; the phone_number_id is the configured
\* one, another one, or absent
WebhookData ==
    {[c EXCEPT !.shape = shape, !.phone_number_id = phone] :
        c \in WebhookChanges, shape \in ShapesWithValue,
        phone \in {"P1", "P9", ""}}
    \cup {MkData(shape, "", "", <<>>, <<>>, "", "") : shape \in OtherShapes}

\* lines 90-105: messages and phone_id; the fallback for entry as an object
\* reads the messages only
Extracted(data) ==
    [messages |-> IF data.shape \in ShapesWithValue THEN data.messages
                  ELSE <<>>,
     phone_id |-> IF data.shape = "entry_list" THEN data.phone_number_id
                  ELSE ""]

\* lines 106-114: the profile-name lookup calls .get on data and on every
\* element of data["entry"]; the elements of an object are its keys
SenderNameRaises(data) == data.shape \in {"entry_object", "not_mapping"}

\* Mutant: an event without a matching account goes to the account "A".
ResolveAccountDefault(phone_id) ==
    IF phone_id # "" /\ get_whatsapp_account(phone_id) # NoAccount
    THEN get_whatsapp_account(phone_id)
    ELSE "A"

\* line 116
ResolveAccount(phone_id) ==
    IF phone_id # "" THEN get_whatsapp_account(phone_id) ELSE NoAccount

\* what a run leaves: the records, and whether it ended in an exception
Outcome(new_profiles, new_messages, new_jobs, new_rows, raised) ==
    [profiles |-> new_profiles, messages |-> new_messages, jobs |-> new_jobs,
     template_rows |-> new_rows, raised |-> raised]

Untouched(raised) == Outcome(profiles, messages, jobs, template_rows, raised)

\* _process_incoming_message for one message, as one step
ProcessIncoming(message, whatsapp_account) ==
    IF \/ message.from = <<>>
       \/ (message.id # NoId /\ MessageExists(message.id))
       \/ ContentType(message) = ""
    THEN Untouched(FALSE)
    ELSE Outcome(create_whatsapp_profile(message.from, <<>>),
                 Append(messages,
                        MkMessage("Incoming", message.from, <<>>, message.id,
                                  ContentType(message), "Manual",
                                  whatsapp_account,
                                  get_last_sender_app(whatsapp_account,
                                                      message.from),
                                  NoApp, "")),
                 jobs \o JobsFor(message, Len(messages) + 1),
                 template_rows, FALSE)

\* Mutant: the UPDATE has no WHERE clause.
update_template_status_all(data) ==
    [t \in DOMAIN template_rows |->
        [template_rows[t] EXCEPT !.status = data.event]]

\* update_template_status: UPDATE ... SET status = event WHERE id = ...
update_template_status(data) ==
    [t \in DOMAIN template_rows |->
        IF template_rows[t].id = data.message_template_id
        THEN [template_rows[t] EXCEPT !.status = data.event]
        ELSE template_rows[t]]

\* update_status(changes)
update_status(data) ==
    CASE data.field = "message_template_status_update" ->
             IF data.shape = "no_value" THEN Untouched(TRUE)
             ELSE Outcome(profiles, messages, jobs,
                          update_template_status(data), FALSE)
      [] data.field = "messages" ->
             IF data.shape = "no_value" \/ data.statuses = <<>>
             THEN Untouched(TRUE)
             ELSE Outcome(profiles, update_message_status(data.statuses),
                          jobs, template_rows, FALSE)
      [] OTHER -> Untouched(FALSE)

\* process_webhook_payload(data)
process_webhook_payload(data) ==
    LET got == Extracted(data)
        whatsapp_account == ResolveAccount(got.phone_id)
    IN IF SenderNameRaises(data) THEN Untouched(TRUE)
       ELSE IF whatsapp_account = NoAccount THEN Untouched(FALSE)
       ELSE IF got.messages # <<>>
       THEN ProcessIncoming(got.messages[1], whatsapp_account)
       ELSE IF data.shape \in ShapesWithValue \cup {"no_value"}
       THEN update_status(data)
       ELSE Untouched(FALSE)

\* the provider posts the body: post() logs it and enqueues the task
PostPayload ==
    \E insert_fails \in BOOLEAN :
        LET run == post(payload, insert_fails) IN
        /\ deliveries < MaxDeliveries
        /\ deliveries' = deliveries + 1
        /\ notification_log' = run.notification_log
        /\ jobs' = run.jobs
        /\ lastHttp' = [request |-> [method |-> "POST", data |-> payload,
                                     insert_fails |-> insert_fails],
                        response |-> run.response]
        /\ UNCHANGED <<settings, templates, profiles, messages, routes, now,
                       ticks, task, payload, completed, consentCall,
                       windowCall, lastSend, consentVars, statusCall, accounts,
                       routeCalls, routeRead, extraVars>>

\* a worker runs the next enqueued task, each at most once, in queue order
ProcessPayload ==
    \E j \in 1..Len(jobs) :
        LET done == IF payloadCall = NoCall THEN 0 ELSE payloadCall.job
            data == jobs[j].message
            run == process_webhook_payload(data)
        IN
        /\ jobs[j].job = "process_webhook_payload"
        /\ j > done
        /\ profiles' = run.profiles
        /\ messages' = run.messages
        /\ jobs' = run.jobs
        /\ template_rows' = run.template_rows
        /\ completed' = completed + 1
        /\ payloadCall' = [called |-> TRUE, job |-> j, data |-> data,
                           account |-> ResolveAccount(Extracted(data).phone_id),
                           raised |-> run.raised]
        /\ UNCHANGED <<settings, templates, routes, now, ticks, task, payload,
                       deliveries, consentCall, windowCall, lastSend,
                       consentVars, notification_log, lastHttp, statusCall,
                       accounts, routeCalls, routeRead, routeTask, client_apps,
                       forwardCall, downloadCall, transmitCall,
                       adminVars>>

InitPayload ==
    /\ settings = QuietSettings
    /\ templates = TemplateStore
    /\ now = 0
    /\ ticks = 0
    /\ messages = <<MkMessage("Outgoing", <<>>, N1, TrackedId1, "text",
                              "Manual", "A", NoApp, "app1", "Success"),
                    MkMessage("Outgoing", <<>>, N2, TrackedId2, "text",
                              "Manual", "A", NoApp, NoApp, "Success")>>
    /\ profiles = <<NewProfile(N1), NewProfile(N2)>>
    /\ routes \in {NoRoutes, [k \in {RouteKey(N1, "A")} |-> "app1"]}
    /\ task = [w \in Workers |-> IdleTask]
    /\ payload \in WebhookData
    /\ deliveries = 0
    /\ completed = 0
    /\ jobs = <<>>
    /\ QuietCalls
    /\ QuietSend
    /\ QuietConsentOps
    /\ QuietHttp

NextPayload == PostPayload \/ ProcessPayload

SpecPayload == InitPayload /\ [][NextPayload]_vars

\* the step is a run of the task
PayloadStep == payloadCall' # payloadCall

\* C26: a run of the task for a payload that resolved to an account and
\* has no messages array is a status update: for the field
\* message_template_status_update every template whose id is the given
\* one takes the given status and no other template or Message changes;
\* for the field messages with a statuses list the Message whose provider
\* id equals the first status' id takes that delivery status and no other
\* Message's status changes.
C26_StatusUpdateApplied ==
    [][(PayloadStep /\ payloadCall'.account # NoAccount
                    /\ payloadCall'.data.messages = <<>>) =>
          LET d == payloadCall'.data IN
          /\ d.field = "message_template_status_update" =>
                /\ \A t \in TemplateNames :
                      /\ template_rows'[t].id = template_rows[t].id
                      /\ template_rows'[t].status =
                            IF template_rows[t].id = d.message_template_id
                            THEN d.event ELSE template_rows[t].status
                /\ messages' = messages
          /\ (d.field = "messages" /\ d.statuses # <<>>) =>
                /\ Len(messages') = Len(messages)
                /\ \A i \in 1..Len(messages) :
                      messages'[i].status =
                          IF messages[i].message_id = d.statuses[1].id
                          THEN d.statuses[1].status ELSE messages[i].status
                /\ template_rows' = template_rows]_vars

\* a template-status change was applied to the one template with that id
C26_Witness ==
    /\ payloadCall # NoCall
    /\ payloadCall.data.field = "message_template_status_update"
    /\ payloadCall.data.message_template_id = "T1"
    /\ template_rows["promo_bare"].status = "REJECTED"
    /\ template_rows["promo_ok"].status = "PENDING"
    /\ template_rows["utility"].status = "PENDING"

\* the same body with entry as a list of entries
AsEntryList(data) == [data EXCEPT !.shape = "entry_list"]

\* C27 as stated: a run of the task for a payload that carries messages
\* and the phone_number_id of a configured account, in either of the two
\* shapes (entry as a list, entry as a single object), ends without an
\* error and leaves the Message records that the same payload with entry
\* as a list leaves.
C27_ShapesYieldSameMessages ==
    [][(/\ PayloadStep
        /\ payloadCall'.data.shape \in ShapesWithValue
        /\ payloadCall'.data.messages # <<>>
        /\ payloadCall'.data.phone_number_id = "P1") =>
          /\ ~payloadCall'.raised
          /\ messages' =
                process_webhook_payload(AsEntryList(payloadCall'.data)).messages]_vars

\* the payload names no configured account: another phone id, or none
Unmatched(data) ==
    \A a \in DOMAIN PhoneIdOf : PhoneIdOf[a] # data.phone_number_id

C30_TaskNeverRaises ==
    [][PayloadStep =>
          /\ ~payloadCall'.raised
          /\ Len(messages') >= Len(messages)
          /\ \A i \in 1..Len(messages) :
                messages'[i].message_id = messages[i].message_id]_vars

----------------------------------------------------------------------------
(* Transmission: WhatsAppMessage.before_insert, notify                     *)
(* (whatsapp_message.py)                                                   *)

\* unsent messages to an opted-in recipient: free-form and template
TransmitDocs ==
    [to : {N1},
     message_type : {"Manual"},
     template : {NoTemplate},
     message_id : {NoId},
     source_app : {NoApp},
     whatsapp_account : {"A"}]
    \cup
    [to : {N1},
     message_type : {"Template"},
     template : {"utility"},
     message_id : {NoId},
     source_app : {NoApp},
     whatsapp_account : {"A"}]

\* the provider accepts and returns a message id, or the request fails with
\* a structured error message, or fails without one
ProviderReplies ==
    {[accepted |-> TRUE, error |-> ""],
     [accepted |-> FALSE, error |-> "E131026"],
     [accepted |-> FALSE, error |-> ""]}

\* notify's except branch: the message of the error it throws
NotifyError(reply) ==
    IF reply.error # "" THEN reply.error
    ELSE "Failed to send WhatsApp message"

\* the error the caller of insert receives when the request failed: the
\* free-form branch wraps notify's error, send_template lets it through
ErrorToCaller(doc, reply) ==
    IF doc.message_type # "Template"
    THEN <<"Failed to send message ", NotifyError(reply)>>
    ELSE <<NotifyError(reply)>>

\* insert of an unsent Outgoing document, as its caller sees it: the
\* status on the document, the stored row if any, the error if any
Transmit ==
    \E doc \in TransmitDocs, reply \in ProviderReplies :
        LET provider == IF reply.accepted THEN "accepted" ELSE "error"
            run == before_insert(doc, provider)
            n == IF transmitCall = NoCall THEN 0 ELSE transmitCall.n
        IN
        /\ n < MaxTransmits
        /\ InsertOutgoingDoc(doc, provider)
        /\ transmitCall' =
              [called |-> TRUE, doc |-> doc, reply |-> reply, api |-> run.api,
               status |-> run.status,
               stored |-> IF run.outcome = "inserted"
                          THEN Len(messages) + 1 ELSE 0,
               provider_id |-> ProviderId,
               error |-> IF run.outcome = "ProviderError"
                         THEN ErrorToCaller(doc, reply) ELSE <<>>,
               n |-> n + 1]
        /\ UNCHANGED <<settings, templates, now, ticks, task, payload,
                       deliveries, completed, jobs, consentCall, windowCall,
                       consentVars, notification_log, lastHttp, statusCall,
                       accounts, routeCalls, routeRead, routeTask, client_apps,
                       forwardCall, downloadCall, template_rows, payloadCall,
                       adminVars>>

NextTransmit == Transmit

SpecTransmit == InitRouted /\ [][NextTransmit]_vars

\* C29 as stated: when the provider accepts the request the Message is
\* stored with the message id the provider returned; when the request
\* fails no Message is stored, the document's status is Failed, and the
\* error the caller receives carries the provider's error message when
\* the provider gave one.
C29_IdStoredOrFailedWithError ==
    [][(transmitCall' # transmitCall /\ transmitCall'.api) =>
          LET call == transmitCall' IN
          IF call.reply.accepted
          THEN /\ call.stored = Len(messages')
               /\ Len(messages') = Len(messages) + 1
               /\ messages'[call.stored].message_id = call.provider_id
          ELSE /\ messages' = messages
               /\ call.status = "Failed"
               /\ call.error # <<>>
               /\ call.reply.error # "" =>
                     call.error[Len(call.error)] = call.reply.error]_vars

----------------------------------------------------------------------------
(* Confirmation messages: send_opt_out_confirmation,                       *)
(* send_opt_in_confirmation (utils/consent.py)                             *)

\* the settings the confirmation sends read
ConfirmSettings ==
    [send_opt_out_confirmation : BOOLEAN,
     opt_out_confirmation_template :
         {"", "confirm_plain", "confirm_params", "confirm_media", "confirm_gone"},
     opt_out_confirmation_message : {"", "bye"},
     send_opt_in_confirmation : BOOLEAN,
     opt_in_confirmation_message : {"", "welcome"}]

\* the WhatsApp Templates rows a confirmation can name; "confirm_gone" has
\* no row
ConfirmTemplates ==
    [t \in {"confirm_plain", "confirm_params", "confirm_media"} |->
        [sample_values |-> IF t = "confirm_params" THEN "x" ELSE "",
         field_names |-> "",
         header_type |-> IF t = "confirm_media" THEN "IMAGE" ELSE ""]]

\* how a confirmation send ends: whether the provider was called, whether
\* a failure was written to the error log, whether an exception left it
SendEnd(api, logged, raised) == [api |-> api, logged |-> logged, raised |-> raised]

\* _send_plain_text: the request is made inside try/except
_send_plain_text(provider) == SendEnd(TRUE, provider = "error", FALSE)

\* _send_template_confirmation: get_doc and the two frappe.throw checks
\* precede the try
_send_template_confirmation(template_name, provider) ==
    IF template_name \notin DOMAIN ConfirmTemplates
    THEN SendEnd(FALSE, FALSE, TRUE)
    ELSE LET template == ConfirmTemplates[template_name] IN
         IF template.sample_values # "" \/ template.field_names # ""
         THEN SendEnd(FALSE, FALSE, TRUE)
         ELSE IF template.header_type \in {"IMAGE", "DOCUMENT"}
         THEN SendEnd(FALSE, FALSE, TRUE)
         ELSE SendEnd(TRUE, provider = "error", FALSE)

send_opt_out_confirmation(conf, provider) ==
    IF ~conf.send_opt_out_confirmation THEN SendEnd(FALSE, FALSE, FALSE)
    ELSE IF conf.opt_out_confirmation_template # ""
    THEN _send_template_confirmation(conf.opt_out_confirmation_template, provider)
    ELSE IF conf.opt_out_confirmation_message = ""
    THEN SendEnd(FALSE, FALSE, FALSE)
    ELSE _send_plain_text(provider)

send_opt_in_confirmation(conf, provider) ==
    IF ~conf.send_opt_in_confirmation THEN SendEnd(FALSE, FALSE, FALSE)
    ELSE IF conf.opt_in_confirmation_message = ""
    THEN SendEnd(FALSE, FALSE, FALSE)
    ELSE _send_plain_text(provider)

\* a confirmation is sent after an opt-out or opt-in was recorded; the
\* functions write no Profile and no audit entry
SendConfirmation ==
    \E kind \in {"opt_out", "opt_in"}, conf \in ConfirmSettings,
       provider \in {"accepted", "error"} :
        LET n == IF confirmCall = NoCall THEN 0 ELSE confirmCall.n
            end == IF kind = "opt_out"
                   THEN send_opt_out_confirmation(conf, provider)
                   ELSE send_opt_in_confirmation(conf, provider)
        IN
        /\ n < MaxConfirms
        /\ confirmCall' = [called |-> TRUE, kind |-> kind, conf |-> conf,
                           provider |-> provider, end |-> end, n |-> n + 1]
        /\ UNCHANGED <<settings, templates, profiles, messages, routes, now,
                       ticks, task, payload, deliveries, completed, jobs,
                       consentCall, windowCall, lastSend, consentVars,
                       notification_log, lastHttp, statusCall, accounts,
                       routeCalls, routeRead, routeTask, client_apps,
                       forwardCall, downloadCall, template_rows, payloadCall,
                       transmitCall, default_flags, saveStack, bulk, profileTask,
                       keyword_rows, keywordCall>>

\* the state an opt-out left: the Profile opted out, one audit entry
InitConfirm ==
    /\ settings = QuietSettings
    /\ templates = TemplateStore
    /\ now = 0
    /\ ticks = 0
    /\ messages = <<MkMessage("Incoming", N1, <<>>, EarlierId, "text",
                              "Manual", "A", NoApp, NoApp, "")>>
    /\ profiles = <<MkProfile(N1, FALSE, TRUE, FALSE,
                              [c \in Categories |-> "absent"])>>
    /\ routes = NoRoutes
    /\ QuietWebhook
    /\ QuietCalls
    /\ QuietSend
    /\ QuietHttp
    /\ consent_log = <<MkEntry(1, N1, "Opt-Out", NoCategory, "Opted In",
                               "Opted Out", 1)>>
    /\ committed = [profiles |-> profiles, consent_log |-> consent_log]
    /\ consentTxn = NoTxn
    /\ calls = <<>>

NextConfirm == SendConfirmation

SpecConfirm == InitConfirm /\ [][NextConfirm]_vars

\* C31 as stated: no confirmation send ends in an exception; a send whose
\* provider call failed is logged; and no send changes a Profile or the
\* audit log.
C31_ConfirmationNeverRaises ==
    [][confirmCall' # confirmCall =>
          /\ ~confirmCall'.end.raised
          /\ (confirmCall'.end.api /\ confirmCall'.provider = "error")
                => confirmCall'.end.logged
          /\ profiles' = profiles
          /\ consent_log' = consent_log]_vars

----------------------------------------------------------------------------
(* Opt-out keyword detection over configured keyword tables                *)
(* (utils/consent.py: get_opt_out_keywords, check_opt_out_keyword)         *)

\* keyword rows: upper- or lower-case keyword, case sensitivity, match
\* type, enabled or not, scoped to every account ("") or to one
KeywordPool ==
    {[MkKeyword(k[1], k[2], match_type, "Full Opt-Out", NoCategory, scope[2])
         EXCEPT !.is_enabled = scope[1]] :
        k \in {<<Stop, FALSE>>, <<StopLower, TRUE>>, <<StopLower, FALSE>>},
        match_type \in {"Exact", "Contains", "Starts With"},
        scope \in {<<TRUE, NoAccount>>, <<TRUE, "A">>, <<TRUE, "B">>,
                   <<FALSE, NoAccount>>}}

\* tables of up to two rows; the first row of a two-row table is a
\* category rule, so that the two rows differ
KeywordTables ==
    {<<>>} \cup {<<r>> : r \in KeywordPool}
           \cup {<<[r EXCEPT !.action = "Category Opt-Out",
                             !.target_category = "promo"], q>> :
                     r \in KeywordPool, q \in KeywordPool}

\* message texts: empty, blank, the keyword in either case, padded, inside
\* a sentence, as a prefix of a longer word, and an unrelated text
KeywordTexts ==
    {<<>>, <<" ">>, Stop, StopLower, <<"S", "t", "o", "p">>,
     <<" ">> \o StopLower \o <<" ">>,
     <<"n", "o", " ">> \o Stop,
     StopLower \o <<"p", "e", "r">>,
     Hello}

\* one call per behaviour: the function reads the table and the settings
\* and writes nothing
CheckKeyword ==
    \E message_text \in KeywordTexts, whatsapp_account \in {NoAccount, "A", "B"} :
        /\ keywordCall = NoCall
        /\ keywordCall' = [called |-> TRUE, message_text |-> message_text,
                           whatsapp_account |-> whatsapp_account,
                           result |-> check_opt_out_keyword(message_text,
                                                            whatsapp_account)]
        /\ UNCHANGED <<settings, templates, profiles, messages, routes, now,
                       ticks, task, payload, deliveries, completed, jobs,
                       consentCall, windowCall, lastSend, consentVars,
                       notification_log, lastHttp, statusCall, accounts,
                       routeCalls, routeRead, routeTask, client_apps,
                       forwardCall, downloadCall, template_rows, payloadCall,
                       transmitCall, confirmCall, default_flags, saveStack, bulk,
                       profileTask, keyword_rows>>

InitKeyword ==
    /\ settings \in {[QuietSettings EXCEPT !.enable_opt_out_detection = e] :
                         e \in BOOLEAN}
    /\ templates = TemplateStore
    /\ now = 0
    /\ ticks = 0
    /\ messages = <<>>
    /\ profiles = <<>>
    /\ routes = NoRoutes
    /\ QuietWebhook
    /\ QuietCalls
    /\ QuietSend
    /\ QuietConsentOps
    /\ notification_log = <<>> /\ lastHttp = NoRequest /\ statusCall = NoCall
    /\ accounts = <<>> /\ routeCalls = <<>> /\ routeRead = NoCall
    /\ routeTask = [w \in Workers |-> IdleRouteTask]
    /\ client_apps = NoClientApps
    /\ forwardCall = NoCall
    /\ downloadCall = NoCall
    /\ template_rows = TemplateRows
    /\ payloadCall = NoCall
    /\ transmitCall = NoCall
    /\ confirmCall = NoCall
    /\ default_flags = NoDefaults
    /\ saveStack = <<>>
    /\ bulk = NoBulk
    /\ profileTask = [w \in Workers |-> IdleProfileTask]
    /\ keyword_rows \in KeywordTables
    /\ keywordCall = NoCall

NextKeyword == CheckKeyword

SpecKeyword == InitKeyword /\ [][NextKeyword]_vars

\* the text with surrounding blanks removed, compared as the row asks
Folded(row, s) == IF row.case_sensitive THEN s ELSE Lower(s)

\* the row's keyword against the trimmed text, by match type
RowMatches(row, message_text) ==
    LET text == Folded(row, Strip(message_text))
        keyword == Folded(row, row.keyword)
    IN \/ row.match_type = "Exact" /\ text = keyword
       \/ /\ row.match_type = "Contains"
          /\ \E i \in 1..(Len(text) + 1), j \in 0..Len(text) :
                SubSeq(text, i, j) = keyword
       \/ /\ row.match_type = "Starts With"
          /\ Len(text) >= Len(keyword)
          /\ \A i \in 1..Len(keyword) : text[i] = keyword[i]

\* C32: check_opt_out_keyword returns the first row, in list order, of the
\* rows it considers whose keyword matches the trimmed text under the
\* row's match type (Exact: equal; Contains: substring; Starts With:
\* prefix), case-insensitively unless the row is case sensitive; it
\* returns none when no row matches, when the text is empty, or when
\* opt-out detection is disabled.
C32_FirstMatchingKeyword ==
    [][keywordCall' # keywordCall =>
          LET call == keywordCall'
              rows == get_opt_out_keywords(call.whatsapp_account)
              hits == {i \in 1..Len(rows) : RowMatches(rows[i], call.message_text)}
          IN IF \/ call.message_text = <<>>
                \/ ~settings.enable_opt_out_detection
                \/ hits = {}
             THEN call.result = NoKeyword
             ELSE \E i \in hits : /\ call.result = rows[i]
                                  /\ \A j \in hits : i <= j]_vars

\* two rows match a padded, differently cased text; the first was returned
C32_Witness ==
    /\ keywordCall # NoCall
    /\ keywordCall.message_text = <<"n", "o", " ">> \o Stop
    /\ Len(keyword_rows) = 2
    /\ keyword_rows[1].match_type = "Contains"
    /\ ~keyword_rows[1].case_sensitive
    /\ keyword_rows[2].match_type = "Contains"
    /\ keyword_rows[2].keyword = Stop
    /\ keywordCall.result = keyword_rows[1]

\* the rows a call for an account may use: enabled, and scoped to every
\* account or to that one
InScope(row, whatsapp_account) ==
    row.is_enabled /\ row.whatsapp_account \in {"", whatsapp_account}

\* C33: a call for an account considers exactly the enabled rows whose
\* scope is "" or that account: the row it returns is such a row, never a
\* disabled one or one scoped to another account, and when such a row
\* matches (text not empty, detection enabled) the call returns a row.
C33_KeywordScope ==
    [][(keywordCall' # keywordCall /\ keywordCall'.whatsapp_account # NoAccount) =>
          LET call == keywordCall' IN
          /\ call.result # NoKeyword =>
                InScope(call.result, call.whatsapp_account)
          /\ (/\ call.message_text # <<>>
              /\ settings.enable_opt_out_detection
              /\ \E i \in 1..Len(keyword_rows) :
                    /\ InScope(keyword_rows[i], call.whatsapp_account)
                    /\ KeywordMatches(keyword_rows[i], call.message_text))
                => call.result # NoKeyword]_vars

\* a row scoped to account A matched the text of a message of account B and
\* was passed over for the global row after it
C33_Witness ==
    /\ keywordCall # NoCall
    /\ keywordCall.whatsapp_account = "B"
    /\ Len(keyword_rows) = 2
    /\ keyword_rows[1].whatsapp_account = "A"
    /\ keyword_rows[1].is_enabled
    /\ KeywordMatches(keyword_rows[1], keywordCall.message_text)
    /\ keywordCall.result = keyword_rows[2]
    /\ keyword_rows[2].whatsapp_account = ""

----------------------------------------------------------------------------
(* Consent mutations, call by call                                         *)

\* the Profile of a number among rows; the Profile get-or-create would
\* insert when there is none
ProfileOf(rows, number) ==
    LET found == {i \in 1..Len(rows) : rows[i].number = number}
    IN IF found = {} THEN NewProfile(number)
       ELSE rows[CHOOSE i \in found : \A j \in found : i <= j]

\* the step is the return of a process_opt_out call
OptOutReturns ==
    /\ consentTxn.pc = "logged"
    /\ consentTxn' = NoTxn
    /\ consentTxn.op.kind = "opt_out"

\* C34: when process_opt_out returns, against the rows as they were before
\* the call: with a rule whose action is Category Opt-Out and that names a
\* target category, that category's row is non-consented and every other
\* category row is as before; the Profile is fully opted out if no
\* category row consents any more and its consent_status is Partial
\* otherwise; one Category Opt-Out entry for that category was appended.
\* With any other rule, or none, or no target category, the Profile is
\* fully opted out, its category rows are as before, and one Opt-Out
\* entry was appended.
C34_CategoryOrFullOptOut ==
    [][OptOutReturns =>
          LET op == consentTxn.op
              number == format_number(op.contact_number)
              rule == op.keyword_match
              before == ProfileOf(committed.profiles, number)
              after == ProfileOf(profiles', number)
              fully == /\ after.is_opted_out
                       /\ ~after.is_opted_in
                       /\ after.consent_status = "Opted Out"
          IN
          /\ Len(consent_log') = Len(committed.consent_log) + 1
          /\ SubSeq(consent_log', 1, Len(committed.consent_log))
                = committed.consent_log
          /\ IF rule.action = "Category Opt-Out" /\ rule.target_category # NoCategory
             THEN /\ after.consents[rule.target_category] # "yes"
                  /\ \A c \in Categories \ {rule.target_category} :
                        after.consents[c] = before.consents[c]
                  /\ IF \A c \in Categories : after.consents[c] # "yes"
                     THEN fully
                     ELSE after.consent_status = "Partial"
                  /\ consent_log'[Len(consent_log')].action = "Category Opt-Out"
                  /\ consent_log'[Len(consent_log')].consent_category
                        = rule.target_category
             ELSE /\ fully
                  /\ after.consents = before.consents
                  /\ consent_log'[Len(consent_log')].action = "Opt-Out"]_vars

\* a category opt-out left the Profile Partial: the other category still
\* consents, and the entry names the category
C34_Witness ==
    /\ Len(calls) = 1
    /\ calls[1].outcome = "returned"
    /\ calls[1].op.kind = "opt_out"
    /\ calls[1].op.keyword_match.action = "Category Opt-Out"
    /\ Len(profiles) = 1
    /\ profiles[1].consent_status = "Partial"
    /\ profiles[1].consents["promo"] = "no"
    /\ profiles[1].consents["news"] = "yes"
    /\ Len(consent_log) = 1
    /\ consent_log[1].consent_category = "promo"


----------------------------------------------------------------------------
(* Opting in and sending afterwards (utils/consent.py process_opt_in) *)

\* the consent settings a site runs: enforced, not enforced, disabled
OptInSettings ==
    {MkSettings("Strict", TRUE, FALSE, FALSE, 0, FALSE, FALSE, <<>>),
     MkSettings("Strict", FALSE, FALSE, FALSE, 0, FALSE, FALSE, <<>>),
     MkSettings("Warning Only", TRUE, FALSE, FALSE, 0, FALSE, FALSE, <<>>),
     MkSettings("Disabled", TRUE, FALSE, FALSE, 0, FALSE, FALSE, <<>>)}

\* the Profile of the number before the call: none, or one that is
\* unknown, opted in or opted out, with or without do_not_contact
InitOptIn ==
    /\ settings \in OptInSettings
    /\ templates = TemplateStore
    /\ now = 0
    /\ ticks = 0
    /\ messages = <<MkMessage("Incoming", N1, <<>>, EarlierId, "text",
                              "Manual", "A", NoApp, NoApp, "")>>
    /\ profiles \in {<<>>} \cup
           {<<MkProfile(N1, d, f[1], f[2], [c \in Categories |-> "absent"])>> :
               d \in BOOLEAN,
               f \in {<<FALSE, FALSE>>, <<TRUE, FALSE>>, <<FALSE, TRUE>>}}
    /\ routes = NoRoutes
    /\ QuietWebhook
    /\ QuietCalls
    /\ QuietSend
    /\ QuietHttp
    /\ consent_log = <<>>
    /\ committed = [profiles |-> profiles, consent_log |-> <<>>]
    /\ consentTxn = NoTxn
    /\ calls = <<>>

\* process_opt_in runs to its return: Profile looked up or created, consent
\* fields set and saved, audit entry inserted, request message tagged
OptIn ==
    \E r \in Requests :
        LET run == process_opt_in(r[1], r[2]) IN
        /\ Len(calls) < MaxOps
        /\ profiles' = run.profiles
        /\ consent_log' = _log_consent(consent_log, run.entry)
        /\ messages' = IF r[2] = 0 THEN messages
                       ELSE [messages EXCEPT ![r[2]].is_opt_in_request = TRUE]
        /\ committed' = [profiles |-> profiles', consent_log |-> consent_log']
        /\ calls' = Append(calls,
                           [op |-> [kind |-> "opt_in",
                                    contact_number |-> r[1],
                                    message_doc_name |-> r[2],
                                    keyword_match |-> NoKeyword],
                            outcome |-> "returned"])
        /\ UNCHANGED <<consentTxn, httpVars>>
        /\ UNCHANGED <<settings, templates, routes, now, ticks, task, payload,
                       deliveries, completed, jobs, consentCall, windowCall,
                       lastSend>>

NextOptIn == OptIn \/ VerifyConsent

SpecOptIn == InitOptIn /\ [][NextOptIn]_vars

\* the step is a process_opt_in call
OptInStep == Len(calls') = Len(calls) + 1

\* what process_opt_in leaves, against the state before the call
OptInLeaves ==
    LET op == calls'[Len(calls')].op
        number == format_number(op.contact_number)
        existed == \E i \in 1..Len(profiles) : profiles[i].number = number
        before == ProfileOf(profiles, number)
        after == ProfileOf(profiles', number)
    IN /\ \E i \in 1..Len(profiles') : profiles'[i].number = number
       /\ Len(profiles') = Len(profiles) + (IF existed THEN 0 ELSE 1)
       /\ after = [before EXCEPT !.is_opted_in = TRUE,
                                 !.is_opted_out = FALSE,
                                 !.consent_status = "Opted In",
                                 !.opted_out_source = ""]
       /\ \A i \in 1..Len(profiles) :
             profiles[i].number # number => profiles'[i] = profiles[i]
       /\ Len(consent_log') = Len(consent_log) + 1
       /\ SubSeq(consent_log', 1, Len(consent_log)) = consent_log
       /\ LET e == consent_log'[Len(consent_log')]
          IN /\ e.action = "Opt-In"
             /\ e.phone_number = number
             /\ e.previous_status = before.is_opted_in
             /\ e.new_status = TRUE
       /\ \A m \in 1..Len(messages) :
             messages'[m].is_opt_in_request =
                 (messages[m].is_opt_in_request \/ m = op.message_doc_name)
       /\ Len(messages') = Len(messages)

\* the step is a verify_consent_for_send call without a category for a
\* number process_opt_in has returned for
VerifyAfterOptIn ==
    /\ consentCall' # consentCall
    /\ consentCall'.consent_category = NoCategory
    /\ ReturnedCalls(format_number(consentCall'.phone_number)) # {}

VerifiedProfile == ProfileOf(profiles, format_number(consentCall'.phone_number))

\* C35 as stated: process_opt_in ends with is_opted_in = 1, is_opted_out = 0,
\* consent_status "Opted In" and the opt-out source cleared, from any prior
\* Profile state including none; it appends one Opt-In entry whose previous
\* status is the prior is_opted_in and tags the message exactly when a
\* message reference was supplied; verify_consent_for_send for that number
\* without a category then allows with status "Opted In" unless
\* do_not_contact is set.
C35_OptInThenAllowed ==
    [][/\ OptInStep => OptInLeaves
       /\ (VerifyAfterOptIn /\ ~VerifiedProfile.do_not_contact)
             => consentCall'.result = ConsentResult(TRUE, "Opted In")]_vars

\* C35 amended: the same, and the verification allows with status
\* "Opted In" unless do_not_contact is set provided consent enforcement is
\* in effect (consent_check_mode not Disabled and enforce_consent_check
\* set); without enforcement it allows with status "Bypassed", and with
\* enforcement and do_not_contact set it denies with "Opted Out".
C35_OptInThenAllowedWhenEnforced ==
    [][/\ OptInStep => OptInLeaves
       /\ VerifyAfterOptIn
             => consentCall'.result =
                   IF ~EnforcementOn THEN ConsentResult(TRUE, "Bypassed")
                   ELSE IF VerifiedProfile.do_not_contact
                   THEN ConsentResult(FALSE, "Opted Out")
                   ELSE ConsentResult(TRUE, "Opted In")]_vars

\* a number without a Profile opted in with no message reference, a Profile
\* that was opted out opted in from a message, and the send check for the
\* first then allowed with "Opted In" under enforcement
C35_Witness ==
    /\ EnforcementOn
    /\ Len(calls) = 2
    /\ calls[1].op.contact_number = N2
    /\ calls[2].op.contact_number = PlusN1
    /\ Len(profiles) = 2
    /\ profiles[1].is_opted_in /\ ~profiles[1].is_opted_out
    /\ consent_log[2].previous_status = FALSE
    /\ messages[1].is_opt_in_request
    /\ consentCall.called
    /\ consentCall.phone_number = N2
    /\ consentCall.consent_category = NoCategory
    /\ consentCall.result = ConsentResult(TRUE, "Opted In")


----------------------------------------------------------------------------
(* Creating the Profile of a number from concurrent calls
   (utils/consent.py _get_or_create_profile, WhatsAppMessage
   create_whatsapp_profile) *)

MaxProfileOps == 3

\* what a Profile step leaves alone besides the base tables
profileRest == <<notification_log, lastHttp, statusCall, accounts, routeCalls, routeRead, routeTask, client_apps, forwardCall, downloadCall, template_rows, payloadCall, transmitCall, confirmCall, default_flags, saveStack, bulk, keyword_rows, keywordCall>>

\* Mutant: the Profile table has no key on the number.
insert_profile_unkeyed(rows, number) ==
    [ok |-> TRUE, rows |-> Append(rows, NewProfile(number))]

\* doc.insert of a Profile: the normalized number is the table's unique key,
\* a second row with the number of a stored one is refused
insert_profile(rows, number) ==
    IF \E i \in 1..Len(rows) : rows[i].number = number
    THEN [ok |-> FALSE, rows |-> rows]
    ELSE [ok |-> TRUE, rows |-> Append(rows, NewProfile(number))]

\* the calls that look up or create a Profile, and the numbers they carry
ProfileOpKinds == {"opt_out", "opt_in", "message"}
ProfileContacts == {N1, PlusN1, N2}

ActiveProfileTasks == {w \in Workers : profileTask[w].pc # "idle"}

InitProfileRace ==
    /\ settings = QuietSettings
    /\ templates = TemplateStore
    /\ now = 0
    /\ ticks = 0
    /\ messages = <<>>
    /\ profiles \in {<<>>, <<NewProfile(N2)>>}
    /\ routes = NoRoutes
    /\ QuietWebhook
    /\ QuietCalls
    /\ QuietSend
    /\ QuietHttp
    /\ consent_log = <<>>
    /\ committed = [profiles |-> profiles, consent_log |-> <<>>]
    /\ consentTxn = NoTxn
    /\ calls = <<>>

\* frappe.db.get_value / frappe.db.exists by number: the worker reads the
\* rows that are committed
ProfileCheck(w) ==
    \E kind \in ProfileOpKinds, contact \in ProfileContacts :
        /\ profileTask[w].pc = "idle"
        /\ Len(calls) + Cardinality(ActiveProfileTasks) < MaxProfileOps
        /\ profileTask' =
              [profileTask EXCEPT ![w] =
                  [pc |-> "checked", kind |-> kind, contact |-> contact,
                   found |-> \E i \in 1..Len(committed.profiles) :
                                committed.profiles[i].number
                                    = format_number(contact)]]
        /\ UNCHANGED <<profiles, messages, consentVars, profileRest>>
        /\ UNCHANGED <<settings, templates, routes, now, ticks, task, payload,
                       deliveries, completed, jobs, consentCall, windowCall,
                       lastSend>>

\* no row was found: the Profile is inserted, or the insert is refused
ProfileInsert(w) ==
    LET t == profileTask[w]
        put == insert_profile(profiles, format_number(t.contact))
    IN
    /\ t.pc = "checked"
    /\ profiles' = IF t.found THEN profiles ELSE put.rows
    /\ profileTask' =
          [profileTask EXCEPT ![w].pc =
              IF t.found \/ put.ok THEN "inserted" ELSE "refused"]
    /\ UNCHANGED <<messages, consentVars, profileRest>>
    /\ UNCHANGED <<settings, templates, routes, now, ticks, task, payload,
                   deliveries, completed, jobs, consentCall, windowCall,
                   lastSend>>

\* a table with the row of one number replaced by, or extended with, a row
WithRow(rows, row) ==
    IF \E i \in 1..Len(rows) : rows[i].number = row.number
    THEN [i \in 1..Len(rows) |->
             IF rows[i].number = row.number THEN row ELSE rows[i]]
    ELSE Append(rows, row)

\* the rest of the call: the consent fields are set and logged, or the
\* message row is stored; the call returns and its transaction commits
ProfileFinish(w) ==
    LET t == profileTask[w]
        number == format_number(t.contact)
        run == IF t.kind = "opt_out"
               THEN process_opt_out(t.contact, NoKeyword, 0)
               ELSE process_opt_in(t.contact, 0)
    IN
    /\ t.pc = "inserted"
    /\ IF t.kind = "message"
       THEN /\ messages' = Append(messages,
                                  MkMessage("Incoming", t.contact, <<>>,
                                            <<"wamid", Len(messages) + 1>>,
                                            "text", "Manual", "A", NoApp,
                                            NoApp, ""))
            /\ UNCHANGED <<profiles, consent_log>>
       ELSE /\ profiles' = run.profiles
            /\ consent_log' = _log_consent(consent_log, run.entry)
            /\ UNCHANGED messages
    /\ committed' =
          [profiles |-> WithRow(committed.profiles, ProfileOf(profiles', number)),
           consent_log |-> consent_log']
    /\ calls' = Append(calls,
                       [op |-> [kind |-> t.kind, contact_number |-> t.contact,
                                message_doc_name |-> 0,
                                keyword_match |-> NoKeyword],
                        outcome |-> "returned"])
    /\ profileTask' = [profileTask EXCEPT ![w] = IdleProfileTask]
    /\ UNCHANGED <<consentTxn, profileRest>>
    /\ UNCHANGED <<settings, templates, routes, now, ticks, task, payload,
                   deliveries, completed, jobs, consentCall, windowCall,
                   lastSend>>

\* the refused insert raises out of the call; nothing of it is kept
ProfileRaise(w) ==
    LET t == profileTask[w] IN
    /\ t.pc = "refused"
    /\ calls' = Append(calls,
                       [op |-> [kind |-> t.kind, contact_number |-> t.contact,
                                message_doc_name |-> 0,
                                keyword_match |-> NoKeyword],
                        outcome |-> "raised"])
    /\ profileTask' = [profileTask EXCEPT ![w] = IdleProfileTask]
    /\ UNCHANGED <<profiles, messages, consent_log, committed, consentTxn,
                   profileRest>>
    /\ UNCHANGED <<settings, templates, routes, now, ticks, task, payload,
                   deliveries, completed, jobs, consentCall, windowCall,
                   lastSend>>

NextProfileRace ==
    \E w \in Workers :
        \/ ProfileCheck(w)
        \/ ProfileInsert(w)
        \/ ProfileFinish(w)
        \/ ProfileRaise(w)

SpecProfileRace == InitProfileRace /\ [][NextProfileRace]_vars

----------------------------------------------------------------------------
(* Consent status and flags of a Profile the calls created *)

\* no Profile yet, or the Profile as _get_or_create_profile inserts it:
\* flags off, status Unknown, no category rows
InitNewProfile ==
    /\ InitOps
    /\ profiles \in {<<>>, <<NewProfile(N1)>>}

SpecNewProfile == InitNewProfile /\ [][NextOps]_vars

StatusAgrees(p) ==
    /\ p.consent_status = "Opted Out" <=> p.is_opted_out
    /\ p.consent_status = "Opted In" => (p.is_opted_in /\ ~p.is_opted_out)

\* C37: in every state reached from a newly created Profile by calls of
\* process_opt_out (full or category) and process_opt_in, in any order,
\* every Profile, as written and as committed, has consent_status
\* "Opted Out" exactly when is_opted_out = 1, and "Opted In" only when
\* is_opted_in = 1 and is_opted_out = 0.
C37_StatusMatchesFlags ==
    /\ \A i \in 1..Len(profiles) : StatusAgrees(profiles[i])
    /\ \A i \in 1..Len(committed.profiles) : StatusAgrees(committed.profiles[i])

\* a created Profile was fully opted out, opted in again, and then opted
\* out of a category: with no category row left consenting it is
\* "Opted Out" with is_opted_out = 1
C37_Witness ==
    /\ consentTxn.pc = "idle"
    /\ Len(calls) = 3
    /\ \A i \in 1..3 : /\ calls[i].outcome = "returned"
                       /\ calls[i].op.contact_number = PlusN1
    /\ IsFullOptOut(calls[1].op)
    /\ calls[2].op.kind = "opt_in"
    /\ calls[3].op.kind = "opt_out"
    /\ ~IsFullOptOut(calls[3].op)
    /\ Len(profiles) = 1
    /\ profiles[1].is_opted_out
    /\ ~profiles[1].is_opted_in
    /\ profiles[1].consent_status = "Opted Out"


----------------------------------------------------------------------------
(* The delivery status of a tracked Message over a run of status webhooks *)

\* the step processes a status event whose first entry carries this id
StatusEventFor(id) ==
    /\ statusCall'.field = "messages"
    /\ statusCall'.statuses # <<>>
    /\ statusCall'.statuses[1].id = id

\* C38: every step that changes anything is the processing of one status
\* event; it leaves the Message tracked under the provider id of the
\* event's first entry with that entry's status, with the entry's
\* conversation id if it carries one and its own otherwise, and with every
\* other field as it was; every other Message, and the number of Messages,
\* is as it was. So after any sequence of status webhooks the status of a
\* tracked Message is that of the first entry of the last event processed
\* for its provider id.
C38_StatusFollowsLastEvent ==
    [][/\ Len(messages') = Len(messages)
       /\ \A m \in 1..Len(messages) :
             IF StatusEventFor(messages[m].message_id)
             THEN LET first == statusCall'.statuses[1]
                  IN messages'[m] =
                        [messages[m] EXCEPT
                            !.status = first.status,
                            !.conversation_id =
                                IF first.conversation # ""
                                THEN first.conversation ELSE @]
             ELSE messages'[m] = messages[m]]_vars

\* the last event for the first tracked Message had two entries, "read"
\* without a conversation for it and "failed" for the other tracked
\* Message: the first Message is "read" and keeps the conversation id of
\* an earlier event, the other Message was not touched
C38_Witness ==
    /\ statusCall # NoCall
    /\ statusCall.field = "messages"
    /\ statusCall.statuses = <<StatusEntry(TrackedId1, "read", ""),
                               StatusEntry(TrackedId2, "failed", "")>>
    /\ messages[1].status = "read"
    /\ messages[1].conversation_id = "conv"
    /\ messages[3].status = "Success"
    /\ messages[3].conversation_id = ""


----------------------------------------------------------------------------
(* Default accounts (doctype/whatsapp_account/whatsapp_account.py) *)

MaxCascadeDepth == 4

DefaultAccounts == {"A", "B", "C"}

DefaultFields == <<"is_default_incoming", "is_default_outgoing">>

AccountFlags == [is_default_incoming : BOOLEAN, is_default_outgoing : BOOLEAN]

\* what a step on the accounts leaves alone besides the base tables
defaultsRest == <<notification_log, lastHttp, statusCall, accounts, routeCalls, routeRead, routeTask, client_apps, forwardCall, downloadCall, template_rows, payloadCall, transmitCall, confirmCall, bulk, profileTask, keyword_rows, keywordCall>>

\* Mutant: on_update returns without looking at the other accounts.
OnUpdateCallNoCheck(name, self) ==
    [name |-> name, self |-> self, field |-> Len(DefaultFields) + 1,
     fetched |-> FALSE, todo |-> <<>>]

\* an on_update call: the document it runs for, with the flags it holds in
\* memory, the field its loop is at, and the rows get_all returned for it
OnUpdateCall(name, self) ==
    [name |-> name, self |-> self, field |-> 1, fetched |-> FALSE, todo |-> <<>>]

\* frappe.get_all("WhatsApp Account", filters={field: 1}): the rows come in
\* no stated order
WithFlag(field) == {a \in DOMAIN default_flags : default_flags[a][field]}

Orderings(S) ==
    {order \in [1..Cardinality(S) -> S] :
        \A i, j \in 1..Cardinality(S) : order[i] = order[j] => i = j}

InitDefaults ==
    /\ settings = QuietSettings
    /\ templates = TemplateStore
    /\ now = 0
    /\ ticks = 0
    /\ messages = <<>>
    /\ profiles = <<>>
    /\ routes = NoRoutes
    /\ QuietWebhook
    /\ QuietCalls
    /\ QuietSend
    /\ QuietConsentOps
    /\ QuietHttp

\* a WhatsApp Account is inserted or saved with the flags the user chose;
\* the row is written and on_update starts
AccountSave ==
    \E name \in DefaultAccounts, flags \in AccountFlags :
        /\ saveStack = <<>>
        /\ default_flags' =
              [a \in DOMAIN default_flags \cup {name} |->
                  IF a = name THEN flags ELSE default_flags[a]]
        /\ saveStack' = <<OnUpdateCall(name, flags)>>
        /\ UNCHANGED <<profiles, messages, consentVars, defaultsRest>>
        /\ UNCHANGED <<settings, templates, routes, now, ticks, task, payload,
                       deliveries, completed, jobs, consentCall, windowCall,
                       lastSend>>

\* there_must_be_only_one_default, the loop over the two fields: a field
\* the document does not hold is skipped, for a field it holds the rows
\* with that field are read, and after the last row the next field follows
OnUpdateField ==
    LET depth == Len(saveStack)
        call == saveStack[depth]
    IN
    /\ saveStack # <<>>
    /\ call.field <= Len(DefaultFields)
    /\ ~call.fetched \/ call.todo = <<>>
    /\ IF ~call.fetched /\ call.self[DefaultFields[call.field]]
       THEN \E order \in Orderings(WithFlag(DefaultFields[call.field])) :
               saveStack' = [saveStack EXCEPT ![depth].fetched = TRUE,
                                              ![depth].todo = order]
       ELSE saveStack' = [saveStack EXCEPT ![depth].field = call.field + 1,
                                           ![depth].fetched = FALSE,
                                           ![depth].todo = <<>>]
    /\ UNCHANGED <<default_flags, profiles, messages, consentVars, defaultsRest>>
    /\ UNCHANGED <<settings, templates, routes, now, ticks, task, payload,
                   deliveries, completed, jobs, consentCall, windowCall,
                   lastSend>>

\* the loop over the rows: the document itself is skipped, any other
\* account is loaded, its field set to 0, and saved, which starts its
\* on_update
OnUpdateAccount ==
    LET depth == Len(saveStack)
        call == saveStack[depth]
        other == call.todo[1]
        field == DefaultFields[call.field]
        cleared == [default_flags EXCEPT ![other][field] = FALSE]
    IN
    /\ saveStack # <<>>
    /\ call.fetched
    /\ call.todo # <<>>
    /\ IF other = call.name
       THEN /\ saveStack' = [saveStack EXCEPT ![depth].todo = Tail(call.todo)]
            /\ UNCHANGED default_flags
       ELSE /\ depth < MaxCascadeDepth
            /\ default_flags' = cleared
            /\ saveStack' =
                  Append([saveStack EXCEPT ![depth].todo = Tail(call.todo)],
                         OnUpdateCall(other, cleared[other]))
    /\ UNCHANGED <<profiles, messages, consentVars, defaultsRest>>
    /\ UNCHANGED <<settings, templates, routes, now, ticks, task, payload,
                   deliveries, completed, jobs, consentCall, windowCall,
                   lastSend>>

\* both fields are done: on_update returns to the save that called it
OnUpdateReturn ==
    /\ saveStack # <<>>
    /\ saveStack[Len(saveStack)].field > Len(DefaultFields)
    /\ saveStack' = SubSeq(saveStack, 1, Len(saveStack) - 1)
    /\ UNCHANGED <<default_flags, profiles, messages, consentVars, defaultsRest>>
    /\ UNCHANGED <<settings, templates, routes, now, ticks, task, payload,
                   deliveries, completed, jobs, consentCall, windowCall,
                   lastSend>>

OnUpdate == OnUpdateField \/ OnUpdateAccount \/ OnUpdateReturn

NextDefaults == AccountSave \/ OnUpdateField \/ OnUpdateAccount \/ OnUpdateReturn

SpecDefaults == InitDefaults /\ [][NextDefaults]_vars

\* a save runs its on_update, and the saves on_update makes, to the end
SpecDefaultsRun == SpecDefaults /\ WF_vars(OnUpdate)

AtMostOneDefault(field) == Cardinality(WithFlag(field)) <= 1

\* the outermost save returns
SaveReturns == Len(saveStack) = 1 /\ saveStack' = <<>>

\* C39: whenever no save is in progress, at most one WhatsApp Account has
\* is_default_incoming and at most one has is_default_outgoing; when the
\* save of an account that holds a default flag returns, no other account
\* has that flag; and every save returns: the saves it sets off come to
\* an end.
C39_OnlyOneDefault ==
    /\ [](saveStack = <<>> =>
            (AtMostOneDefault("is_default_incoming")
                /\ AtMostOneDefault("is_default_outgoing")))
    /\ [][SaveReturns =>
            \A f \in 1..Len(DefaultFields) :
                saveStack[1].self[DefaultFields[f]] =>
                    WithFlag(DefaultFields[f])' \subseteq {saveStack[1].name}]_vars
    /\ []<>(saveStack = <<>>)

\* B held both defaults and A was saved with both: the save of A cleared
\* is_default_incoming of B, whose save cleared is_default_outgoing of A,
\* whose on_update is now running inside the other two
C39_Witness ==
    /\ Len(saveStack) = 3
    /\ saveStack[1].name = "A"
    /\ saveStack[1].self.is_default_incoming
    /\ saveStack[1].self.is_default_outgoing
    /\ saveStack[2].name = "B"
    /\ saveStack[3].name = "A"
    /\ default_flags["A"].is_default_incoming
    /\ ~default_flags["A"].is_default_outgoing
    /\ ~default_flags["B"].is_default_incoming
    /\ default_flags["B"].is_default_outgoing


----------------------------------------------------------------------------
(* Bulk sends (doctype/bulk_whatsapp_message/bulk_whatsapp_message.py) *)

MaxRecipients == 3

\* what a step of a bulk job leaves alone besides the base tables
bulkRest == <<notification_log, lastHttp, statusCall, accounts, routeCalls, routeRead, routeTask, client_apps, forwardCall, downloadCall, template_rows, payloadCall, transmitCall, confirmCall, default_flags, saveStack, profileTask, keyword_rows, keywordCall>>

IdleBulkJob == [pc |-> "idle", sent_count |-> 0]

\* on_submit and queue_messages: the row is Queued and one
\* create_single_message job per recipient is enqueued
queue_messages(recipient_count) ==
    [status |-> "Queued",
     sent_count |-> 0,
     recipient_count |-> recipient_count,
     queued |-> recipient_count,
     run |-> 0,
     failed |-> 0,
     job |-> [w \in Workers |-> IdleBulkJob]]

InitBulk ==
    /\ settings = QuietSettings
    /\ templates = TemplateStore
    /\ now = 0
    /\ ticks = 0
    /\ messages = <<>>
    /\ profiles = <<>>
    /\ routes = NoRoutes
    /\ QuietWebhook
    /\ QuietCalls
    /\ QuietSend
    /\ QuietConsentOps
    /\ notification_log = <<>>
    /\ lastHttp = NoRequest
    /\ statusCall = NoCall
    /\ accounts = <<>>
    /\ routeCalls = <<>>
    /\ routeRead = NoCall
    /\ routeTask = [w \in Workers |-> IdleRouteTask]
    /\ client_apps = NoClientApps
    /\ forwardCall = NoCall
    /\ downloadCall = NoCall
    /\ template_rows = <<>>
    /\ payloadCall = NoCall
    /\ transmitCall = NoCall
    /\ confirmCall = NoCall
    /\ default_flags = NoDefaults
    /\ saveStack = <<>>
    /\ profileTask = [w \in Workers |-> IdleProfileTask]
    /\ keyword_rows = DefaultKeywords
    /\ keywordCall = NoCall
    /\ bulk \in {queue_messages(n) : n \in 1..MaxRecipients}

\* a worker takes a job: enqueue_doc loads the Bulk WhatsApp Message row
BulkJobLoad(w) ==
    /\ bulk.job[w].pc = "idle"
    /\ bulk.queued > 0
    /\ bulk' = [bulk EXCEPT !.queued = @ - 1,
                            !.job[w] = [pc |-> "loaded",
                                        sent_count |-> bulk.sent_count]]
    /\ UNCHANGED <<profiles, messages, consentVars, bulkRest>>
    /\ UNCHANGED <<settings, templates, routes, now, ticks, task, payload,
                   deliveries, completed, jobs, consentCall, windowCall,
                   lastSend>>

\* create_single_message up to the insert: the WhatsApp Message is stored,
\* or the insert raises and the row is set to Partially Failed
BulkJobInsert(w) ==
    \E inserted \in BOOLEAN :
        /\ bulk.job[w].pc = "loaded"
        /\ messages' =
              IF inserted
              THEN Append(messages,
                          MkMessage("Outgoing", <<>>, N1,
                                    <<"out", Len(messages) + 1>>, "text",
                                    "Manual", "A", NoApp, NoApp, "Queued"))
              ELSE messages
        /\ bulk' = [bulk EXCEPT
                      !.status = IF inserted THEN @ ELSE "Partially Failed",
                      !.failed = IF inserted THEN @ ELSE @ + 1,
                      !.job[w].pc = "inserted"]
        /\ UNCHANGED <<profiles, consentVars, bulkRest>>
        /\ UNCHANGED <<settings, templates, routes, now, ticks, task, payload,
                       deliveries, completed, jobs, consentCall, windowCall,
                       lastSend>>

\* create_single_message after the insert: sent_count is written as the
\* loaded count plus one, and the row is Completed if that is the
\* recipient count
BulkJobCount(w) ==
    LET sent_count == bulk.job[w].sent_count + 1 IN
    /\ bulk.job[w].pc = "inserted"
    /\ bulk' = [bulk EXCEPT
                  !.sent_count = sent_count,
                  !.status = IF bulk.recipient_count = sent_count
                             THEN "Completed" ELSE @,
                  !.run = @ + 1,
                  !.job[w] = IdleBulkJob]
    /\ UNCHANGED <<profiles, messages, consentVars, bulkRest>>
    /\ UNCHANGED <<settings, templates, routes, now, ticks, task, payload,
                   deliveries, completed, jobs, consentCall, windowCall,
                   lastSend>>

NextBulk ==
    \E w \in Workers : BulkJobLoad(w) \/ BulkJobInsert(w) \/ BulkJobCount(w)

SpecBulk == InitBulk /\ [][NextBulk]_vars

AllJobsRun ==
    /\ bulk.queued = 0
    /\ \A w \in Workers : bulk.job[w].pc = "idle"

\* C40: once every create_single_message job has run, whatever the
\* interleaving, sent_count is the number of jobs run, and the status is
\* "Completed" if every insert succeeded and "Partially Failed" if at
\* least one failed.
C40_CountAndFinalStatus ==
    AllJobsRun =>
        /\ bulk.sent_count = bulk.run
        /\ bulk.status = IF bulk.failed = 0 THEN "Completed"
                         ELSE "Partially Failed"

====
